---- MODULE Spec2Model ----
(***************************************************************************)
(* Verification model of the GPU worker subsystem of DuckStation           *)
(* (src/core/gpu_thread.cpp): the single-producer/single-consumer command  *)
(* ring between the CPU thread and the GPU thread, the wake/sync protocol  *)
(* built on thread_wake_count and two semaphores, and the reconfigure      *)
(* state machine that creates and destroys the device and the backend.     *)
(*                                                                         *)
(* Every atomic access to a shared location is one step of the thread that *)
(* performs it; thread-local computation is folded into the step that      *)
(* follows it.  Offsets and sizes are in bytes, as in the source.          *)
(***************************************************************************)
EXTENDS Integers, Sequences, FiniteSets, TLC

(***************************************************************************)
(* Bounds of the model.                                                    *)
(***************************************************************************)
\* Ring capacity in 4-byte words (the source uses 16 MiB).
QueueWords == 6
\* Wake threshold in 4-byte words (the source uses 64 KiB).
ThresholdWords == 4
\* Number of commands the CPU thread issues in one run.
MaxCmds == 3
\* Cap on the pending-work magnitude of thread_wake_count.
MaxWake == 6
\* g_settings.gpu_max_queued_frames, the configured queued-frame limit.
MaxQueuedFrames == 2
\* PushCommandAndFrame calls in one behaviour of the frame queue.
MaxFrames == 4
\* Cap of skipped_present_count where the device is never lost.
MaxSkippedCount == 52
\* Cap of skipped_present_count where the device may be lost.
MaxLossCount == 3
\* Presents the device refuses without being lost.
MaxFailedPresents == 2
\* Last value of the timer, in seconds.
MaxTime == 16
\* Largest width and height, in pixels, of a display readout and the largest
\* number of 24-bit pixels skipped at its left edge.
MaxReadWidth == 3
MaxReadHeight == 3
MaxSkipX == 1
\* Turns of AllocateCommand's ring-full wait taken in one step.
MaxSpinIterations == 536870912

(***************************************************************************)
(* Program constants.                                                      *)
(***************************************************************************)
COMMAND_QUEUE_SIZE == 4 * QueueWords
THRESHOLD_TO_WAKE_GPU == 4 * ThresholdWords
THREAD_WAKE_COUNT_CPU_THREAD_IS_WAITING == 1073741824
THREAD_WAKE_COUNT_SLEEPING == -1
MAX_SKIPPED_PRESENT_COUNT == 50
\* HandleGPUDeviceLost: MIN_TIME_BETWEEN_RESETS = 15.0f, in seconds.
MIN_TIME_BETWEEN_RESETS == 15

\* sizeof(GPUBackendCommandType): enum class ... : u8
SizeofCommandType == 1
\* sizeof(GPUBackendCommand): header { type, size, params }
SizeofBackendCommand == 8
\* sizeof(GPUThreadCommand), sizeof(GPUThreadReconfigureCommand),
\* sizeof(GPUThreadAsyncCallCommand)
SizeofThreadCommand == 8
SizeofReconfigureCommand == 16
SizeofAsyncCallCommand == 16

\* Sizes requested for backend commands (header plus trailing data): a bare
\* header, a multiple of 4 that is no multiple of 8, and one that
\* AllocateCommand rounds up.
BackendSizes == {8, 12, 14}

\* enum GPUBackendCommandType: worker-control values come first, every
\* backend command compares greater than Shutdown.
TypeOrd ==
  [t \in {"Wraparound", "AsyncCall", "Reconfigure", "Shutdown", "UpdateVRAM"} |->
     CASE t = "Wraparound" -> 0
       [] t = "AsyncCall" -> 1
       [] t = "Reconfigure" -> 2
       [] t = "Shutdown" -> 3
       [] t = "UpdateVRAM" -> 4]

CommandTypes == DOMAIN TypeOrd

\* Callables handed to RunOnThread.
AsyncFuncs == {"SetRunIdleOn", "SetRunIdleOff"}

Offsets == {o \in 0..(COMMAND_QUEUE_SIZE - 1) : o % 4 = 0}

(***************************************************************************)
(* Pure helpers.                                                           *)
(***************************************************************************)
\* Common::AlignUpPow2(size, 4)
AlignUpPow2(size) == ((size + 3) \div 4) * 4

\* The wake counter is an s32.  Its low 31 bits as a number: the value
\* itself when it is not negative, the value plus 2^31 when it is.
INT32_MAX == 2147483647
Low31(state) == IF state >= 0 THEN state ELSE (state + INT32_MAX) + 1

\* (state & THREAD_WAKE_COUNT_CPU_THREAD_IS_WAITING) != 0
HasWaitingBit(state) ==
  Low31(state) \div THREAD_WAKE_COUNT_CPU_THREAD_IS_WAITING = 1

\* state & ~THREAD_WAKE_COUNT_CPU_THREAD_IS_WAITING
GetThreadWakeCount(state) ==
  IF HasWaitingBit(state)
    THEN state - THREAD_WAKE_COUNT_CPU_THREAD_IS_WAITING
    ELSE state

\* state | THREAD_WAKE_COUNT_CPU_THREAD_IS_WAITING
OrWaitingBit(state) ==
  IF HasWaitingBit(state)
    THEN state
    ELSE state + THREAD_WAKE_COUNT_CPU_THREAD_IS_WAITING

\* state & THREAD_WAKE_COUNT_CPU_THREAD_IS_WAITING
AndWaitingBit(state) ==
  IF HasWaitingBit(state) THEN THREAD_WAKE_COUNT_CPU_THREAD_IS_WAITING ELSE 0

\* fetch_add(1): the sum is 0 when the GPU thread sleeps.
FetchAdd1(state) == state + 1

\* std::atomic<s32>::fetch_add(2): the stored value, wrapping at 2^31
FetchAdd2(state) ==
  IF state > INT32_MAX - 2 THEN (state - INT32_MAX) - INT32_MAX ELSE state + 2

(***************************************************************************)
(* State.                                                                  *)
(***************************************************************************)
VARIABLES
  command_fifo_data,         \* ring memory: offset -> the header stored there
  command_fifo_write_ptr,    \* std::atomic<u32>, owned by the CPU thread
  command_fifo_read_ptr,     \* std::atomic<u32>, owned by the GPU thread
  thread_wake_count,         \* std::atomic<s32>
  thread_wake_semaphore,     \* permits of the GPU thread's wake semaphore
  thread_is_done_semaphore,  \* permits of the CPU thread's completion semaphore
  gpu_backend,               \* "null" or the installed backend
  g_gpu_device,              \* RenderAPI of the device, "None" when absent
  fsui_initialized,          \* FullscreenUI::IsInitialized()
  run_idle_flag,
  requested_fullscreen_ui,
  requested_renderer,        \* std::optional<GPURenderer>
  cpu,                       \* CPU thread: position and locals
  gpu,                       \* GPU thread: position and locals
  slots,                     \* history: every slot written, by id
  npublished,                \* history: slots 1..npublished are published
  dispatched,                \* history: ids in the order the GPU thread dispatched
  handled,                   \* history: ids passed to GPUBackend::HandleCommand
  reconf,                    \* history: progress of ReconfigureOnThread and returns
  frames,                    \* frame queue: GPUBackend::m_queued_frames and its users
  present,                   \* PresentFrame and HandleGPUDeviceLost: counters and history
  worker                     \* Reconfigure as one call: g_vram, the hardware texture, history

ringVars == <<command_fifo_data, command_fifo_write_ptr, command_fifo_read_ptr>>
wakeVars == <<thread_wake_count, thread_wake_semaphore, thread_is_done_semaphore>>
devVars == <<gpu_backend, g_gpu_device, fsui_initialized, run_idle_flag,
             requested_fullscreen_ui>>
histVars == <<slots, npublished, dispatched, handled, reconf>>
auxVars == <<frames, present, worker>>
vars == <<ringVars, wakeVars, devVars, requested_renderer, cpu, gpu, histVars, auxVars>>

(***************************************************************************)
(* Ring memory.  A slot is known by the header stored at its first byte;   *)
(* the words behind the header hold payload, which is no header.  Garbage  *)
(* stands for a word that holds no header the producer wrote there         *)
(* (uninitialised memory, payload, or the rest of an overwritten slot).    *)
(***************************************************************************)
Garbage ==
  [type |-> "Garbage", size |-> 0, id |-> 0, renderer |-> "nullopt",
   start_fullscreen_ui |-> "nullopt", force_recreate_device |-> FALSE,
   func |-> "none", result |-> "uninit"]

\* Stores of `bytes` bytes starting at off; bytes past the header word that
\* are overwritten no longer hold a header.
StoreAt(mem, off, bytes, hdr) ==
  [o \in Offsets |->
     IF o = off THEN hdr
     ELSE IF o > off /\ o < off + bytes THEN Garbage
     ELSE mem[o]]

NoBackend == [kind |-> "null", initialized |-> FALSE]

\* Settings::GetRenderAPIForRenderer: Software and Automatic use the
\* platform's preferred API, a hardware renderer its own API.
GetRenderAPIForRenderer(renderer) ==
  IF renderer = "Hardware" THEN "HardwareAPI" ELSE "PreferredAPI"

\* g_gpu_settings.gpu_renderer
SettingsGpuRenderer == "Hardware"

CpuIdle(ncmds, valid) ==
  [pc |-> "idle", api |-> "none", push |-> "none", type |-> "none", size |-> 0,
   spin |-> FALSE, read_ptr |-> 0, write_ptr |-> 0, cmd |-> 0, ret |-> "none",
   renderer |-> "nullopt", start_fullscreen_ui |-> "nullopt",
   force_recreate_device |-> FALSE, func |-> "none",
   ncmds |-> ncmds, system_valid |-> valid]

GpuStart ==
  [pc |-> "loop", read_ptr |-> 0, write_ptr |-> 0, cmd |-> 0, id |-> 0,
   allow_sleep |-> FALSE]

\* GPUBackend's frame queue before the first frame, and the CPU thread outside
\* PushCommandAndFrame.  queue holds the present_frame flag of every
\* UpdateDisplay command published and not yet handled.
NoFrames ==
  [pc |-> "idle", drain_one |-> FALSE, present_frame |-> FALSE, ncalls |-> 0,
   m_queued_frames |-> 0, semaphore |-> 0, queue |-> << >>]

\* What the last PresentFrame call did (history).
NoCall ==
  [skip_present |-> FALSE, pres |-> "none", loss |-> "none", gap |-> -1,
   is_fullscreen |-> FALSE, requested |-> "nullopt", warnings |-> 0, capped |-> FALSE,
   device_ok |-> TRUE, hw_ok |-> TRUE, sw_ok |-> TRUE, imgui |-> << >>,
   scheduled |-> FALSE, explicit_present |-> FALSE, timed_present |-> FALSE,
   pacing |-> << >>]

\* PresentFrame's state before the first call: skipped_present_count,
\* HandleGPUDeviceLost's static s_last_gpu_reset_time, the timer (seconds,
\* never 0), the host window and the OSD; streak (consecutive skipped calls
\* with a swap chain), failed (presents the device refused otherwise than by
\* losing the device), last_loss and last are history.
NoPresent ==
  [pc |-> "idle", skipped_present_count |-> 0, s_last_gpu_reset_time |-> 0, now |-> 1,
   has_swap_chain |-> TRUE, host_fullscreen |-> FALSE, device_fullscreen |-> FALSE,
   osd_warnings |-> 0, streak |-> 0, failed |-> 0, last_loss |-> -1, last |-> NoCall]

\* The call's record before ReconfigureOnThread runs: nothing done yet.
NoTrace ==
  [result |-> "uninit", error |-> "none", readback |-> FALSE, destroyed |-> FALSE,
   created |-> << >>, inits |-> << >>, osd |-> << >>,
   window |-> [held |-> FALSE, calls |-> << >>]]

\* No display command handed over, no readout made.
NoDisplay ==
  [pending |-> FALSE,
   cmd |-> [display_disabled |-> TRUE, display_24bit |-> FALSE,
            interlaced_display_enabled |-> FALSE,
            interlaced_display_interleaved |-> FALSE, interlaced_display_field |-> 0,
            X |-> 0, display_vram_left |-> 0, display_vram_top |-> 0,
            display_vram_width |-> 0, display_vram_height |-> 0,
            format |-> "RGBA8", has_texture |-> FALSE, seed |-> 0, stray |-> 0],
   cleared |-> FALSE, called |-> FALSE, returned |-> FALSE,
   args |-> [src_x |-> 0, src_y |-> 0, skip_x |-> 0, width |-> 0, height |-> 0,
             line_skip |-> 0, is_24bit |-> FALSE, format |-> "RGBA8", seed |-> 0],
   path |-> "none", out |-> << >>, outside |-> FALSE]

\* Before the first Reconfigure: VRAM cleared, no call made.
NoWorker ==
  [g_vram |-> "zero", texture |-> "none", seq |-> 0, api |-> "none",
   cmd |-> [renderer |-> "nullopt", upload_vram |-> FALSE,
            start_fullscreen_ui |-> "nullopt", force_recreate_device |-> FALSE,
            has_error_ptr |-> FALSE],
   old_backend |-> "null", old_vram |-> "zero",
   trace |-> NoTrace,
   display |-> NoDisplay]

NoReconf ==
  [finished |-> {}, teardown |-> {}, returned |-> {}, last_id |-> 0,
   last_result |-> "none", last_stored |-> FALSE]

\* State after ProcessStartup and the start of GPUThreadEntryPoint.
Init ==
  /\ command_fifo_data = [o \in Offsets |-> Garbage]
  /\ command_fifo_write_ptr = 0
  /\ command_fifo_read_ptr = 0
  /\ thread_wake_count = 0
  /\ thread_wake_semaphore = 0
  /\ thread_is_done_semaphore = 0
  /\ gpu_backend = NoBackend
  /\ g_gpu_device = "None"
  /\ fsui_initialized = FALSE
  /\ run_idle_flag = FALSE
  /\ requested_fullscreen_ui = FALSE
  /\ requested_renderer = "nullopt"
  /\ cpu = CpuIdle(0, FALSE)
  /\ gpu = GpuStart
  /\ slots = << >>
  /\ npublished = 0
  /\ dispatched = << >>
  /\ handled = << >>
  /\ reconf = NoReconf
  /\ frames = NoFrames
  /\ present = NoPresent
  /\ worker = NoWorker

(***************************************************************************)
(* CPU thread: entry points.  Each one fixes the command's type, size and  *)
(* fields and enters AllocateCommand.                                      *)
(***************************************************************************)
CanIssue == cpu.pc = "idle" /\ cpu.ncmds < MaxCmds

Enter(api, push, type, size) ==
  [cpu EXCEPT !.pc = "alloc", !.api = api, !.push = push, !.type = type,
              !.size = AlignUpPow2(size), !.ncmds = @ + 1]

\* GPUBackend::New...Command followed by one of the three Push calls; the
\* emulated GPU issues them only while a system (and so a backend) exists.
BackendCommand ==
  /\ CanIssue
  /\ cpu.system_valid
  /\ \E push \in {"PushCommand", "PushCommandAndWakeThread", "PushCommandAndSync"},
        size \in BackendSizes, spin \in BOOLEAN :
       /\ spin => push = "PushCommandAndSync"
       /\ cpu' = [Enter("BackendCommand", push, "UpdateVRAM", size) EXCEPT !.spin = spin]
  /\ UNCHANGED <<ringVars, wakeVars, devVars, requested_renderer, gpu, histVars>>
  /\ UNCHANGED auxVars

\* GPUThread::RunOnThread(func)
RunOnThread ==
  /\ CanIssue
  /\ \E func \in AsyncFuncs :
       cpu' = [Enter("RunOnThread", "PushCommandAndWakeThread", "AsyncCall",
                     SizeofAsyncCallCommand) EXCEPT !.func = func]
  /\ UNCHANGED <<ringVars, wakeVars, devVars, requested_renderer, gpu, histVars>>
  /\ UNCHANGED auxVars

\* GPUThread::PresentCurrentFrame(): RunOnThread of the lambda that presents
\* unless the thread runs idle.
PresentCurrentFrame ==
  /\ CanIssue
  /\ cpu' = [Enter("PresentCurrentFrame", "PushCommandAndWakeThread", "AsyncCall",
                    SizeofAsyncCallCommand) EXCEPT !.func = "PresentCurrentFrame"]
  /\ UNCHANGED <<ringVars, wakeVars, devVars, requested_renderer, gpu, histVars>>
  /\ UNCHANGED auxVars

\* GPUThread::Reconfigure(renderer, ..., start_fullscreen_ui, recreate_device)
EnterReconfigure(api, renderer, fsui, force) ==
  [Enter(api, "PushCommandAndSync", "Reconfigure", SizeofReconfigureCommand)
     EXCEPT !.renderer = renderer, !.start_fullscreen_ui = fsui,
            !.force_recreate_device = force]

\* GPUThread::CreateGPUBackend
CreateGPUBackend ==
  /\ CanIssue
  /\ ~cpu.system_valid
  /\ \E renderer \in {"Software", "Hardware"}, force \in BOOLEAN :
       /\ requested_renderer' = renderer
       /\ cpu' = EnterReconfigure("CreateGPUBackend", renderer, "nullopt", force)
  /\ UNCHANGED <<ringVars, wakeVars, devVars, gpu, histVars>>
  /\ UNCHANGED auxVars

\* GPUThread::DestroyGPUBackend
DestroyGPUBackend ==
  /\ CanIssue
  /\ cpu.system_valid
  /\ cpu' = [EnterReconfigure("DestroyGPUBackend", "nullopt", "nullopt", FALSE)
               EXCEPT !.system_valid = FALSE]
  /\ UNCHANGED <<ringVars, wakeVars, devVars, requested_renderer, gpu, histVars>>
  /\ UNCHANGED auxVars

\* GPUThread::StartFullscreenUI
StartFullscreenUI ==
  /\ CanIssue
  /\ cpu' = IF cpu.system_valid
              THEN [Enter("StartFullscreenUI", "PushCommandAndWakeThread", "AsyncCall",
                          SizeofAsyncCallCommand) EXCEPT !.func = "StartFullscreenUI"]
              ELSE EnterReconfigure("StartFullscreenUI", "nullopt", "true", FALSE)
  /\ UNCHANGED <<ringVars, wakeVars, devVars, requested_renderer, gpu, histVars>>
  /\ UNCHANGED auxVars

\* GPUThread::StopFullscreenUI
StopFullscreenUI ==
  /\ CanIssue
  /\ cpu' = IF cpu.system_valid
              THEN [Enter("StopFullscreenUI", "PushCommandAndWakeThread", "AsyncCall",
                          SizeofAsyncCallCommand) EXCEPT !.func = "StopFullscreenUI"]
              ELSE EnterReconfigure("StopFullscreenUI", "nullopt", "false", FALSE)
  /\ UNCHANGED <<ringVars, wakeVars, devVars, requested_renderer, gpu, histVars>>
  /\ UNCHANGED auxVars

(***************************************************************************)
(* CPU thread: AllocateCommand.                                            *)
(***************************************************************************)
NextId == Len(slots) + 1

\* The header AllocateCommand and its caller write into the slot.  The
\* result field of a Reconfigure command is written by nobody on this side.
NewSlot ==
  [type |-> cpu.type, size |-> cpu.size, id |-> NextId, renderer |-> cpu.renderer,
   start_fullscreen_ui |-> cpu.start_fullscreen_ui,
   force_recreate_device |-> cpu.force_recreate_device, func |-> cpu.func,
   result |-> "uninit"]

\* The dummy command with the size of its own header in the size field.
WraparoundSlotHeaderSize(available_size) ==
  [Garbage EXCEPT !.type = "Wraparound", !.size = SizeofBackendCommand, !.id = NextId]

WraparoundSlot(available_size) ==
  [Garbage EXCEPT !.type = "Wraparound", !.size = available_size, !.id = NextId]

\* The wrap test of the else branch compares against the tail with the
\* request as if the tail had to hold one more header.
NeedsWraparoundExactFit(size, available_size) == size > available_size

\* if ((size + sizeof(GPUBackendCommand)) > available_size)
NeedsWraparound(size, available_size) == (size + SizeofBackendCommand) > available_size

\* One pass of the for (;;) loop up to its first store: load read_ptr and
\* write_ptr, then either enter the ring-full wait, write the Wraparound
\* header, or fall through to the slot.
AllocateCommand ==
  /\ cpu.pc = "alloc"
  /\ LET read_ptr == command_fifo_read_ptr
         write_ptr == command_fifo_write_ptr
         c == [cpu EXCEPT !.read_ptr = read_ptr, !.write_ptr = write_ptr]
     IN IF read_ptr > write_ptr
          THEN /\ cpu' = IF (read_ptr - write_ptr) < (cpu.size + SizeofCommandType)
                           THEN [c EXCEPT !.pc = "wake", !.ret = "alloc_spin_load"]
                           ELSE [c EXCEPT !.pc = "alloc_ret"]
               /\ UNCHANGED <<command_fifo_data, slots>>
          ELSE LET available_size == COMMAND_QUEUE_SIZE - write_ptr
               IN IF NeedsWraparound(cpu.size, available_size)
                    THEN /\ command_fifo_data' =
                              StoreAt(command_fifo_data, write_ptr, SizeofBackendCommand,
                                      WraparoundSlot(available_size))
                         /\ slots' = Append(slots, [type |-> "Wraparound", off |-> write_ptr,
                                                    size |-> available_size])
                         /\ cpu' = [c EXCEPT !.pc = "alloc_wrap_store"]
                    ELSE /\ cpu' = [c EXCEPT !.pc = "alloc_ret"]
                         /\ UNCHANGED <<command_fifo_data, slots>>
  /\ UNCHANGED <<command_fifo_write_ptr, command_fifo_read_ptr, wakeVars, devVars,
                 requested_renderer, gpu, npublished, dispatched, handled, reconf>>
  /\ UNCHANGED auxVars

\* command_fifo_write_ptr.store(0, release); continue;
AllocateWrapStore ==
  /\ cpu.pc = "alloc_wrap_store"
  /\ command_fifo_write_ptr' = 0
  /\ npublished' = npublished + 1
  /\ cpu' = [cpu EXCEPT !.pc = "alloc"]
  /\ UNCHANGED <<command_fifo_data, command_fifo_read_ptr, wakeVars, devVars,
                 requested_renderer, gpu, slots, dispatched, handled, reconf>>
  /\ UNCHANGED auxVars

\* The ring-full wait after its WakeGPUThread: reload read_ptr, recompute
\* available_size, test the loop condition again.
AllocateSpinLoad ==
  /\ cpu.pc = "alloc_spin_load"
  /\ LET read_ptr == command_fifo_read_ptr
         write_ptr == cpu.write_ptr
         available_size == IF read_ptr > write_ptr THEN read_ptr - write_ptr
                                                   ELSE COMMAND_QUEUE_SIZE - write_ptr
     IN cpu' = IF available_size < (cpu.size + SizeofCommandType)
                 THEN [cpu EXCEPT !.read_ptr = read_ptr, !.pc = "wake",
                                  !.ret = "alloc_spin_load"]
                 ELSE [cpu EXCEPT !.read_ptr = read_ptr, !.pc = "alloc_ret"]
  /\ UNCHANGED <<ringVars, wakeVars, devVars, requested_renderer, gpu, histVars>>
  /\ UNCHANGED auxVars

\* The ring-full wait, MaxSpinIterations turns of it in a row during which
\* the GPU thread takes no step: each turn calls WakeGPUThread, whose
\* fetch_add(2) finds a value that is not negative and posts nothing, reloads
\* read_ptr and finds the ring as full as before.
AllocateSpinIterations ==
  /\ cpu.pc = "wake" /\ cpu.ret = "alloc_spin_load"
  /\ thread_wake_count >= 0
  /\ thread_wake_count <= INT32_MAX - 2 * MaxSpinIterations
  /\ LET read_ptr == command_fifo_read_ptr
         write_ptr == cpu.write_ptr
         available_size == IF read_ptr > write_ptr THEN read_ptr - write_ptr
                                                   ELSE COMMAND_QUEUE_SIZE - write_ptr
     IN /\ available_size < (cpu.size + SizeofCommandType)
        /\ cpu' = [cpu EXCEPT !.read_ptr = read_ptr]
  /\ thread_wake_count' = thread_wake_count + 2 * MaxSpinIterations
  /\ UNCHANGED <<ringVars, thread_wake_semaphore, thread_is_done_semaphore, devVars,
                 requested_renderer, gpu, histVars>>
  /\ UNCHANGED auxVars

\* cmd = &command_fifo_data[write_ptr]; cmd->type, cmd->size and the
\* caller's fields are stored before the command is pushed.
AllocateReturn ==
  /\ cpu.pc = "alloc_ret"
  /\ command_fifo_data' = StoreAt(command_fifo_data, cpu.write_ptr, cpu.size, NewSlot)
  /\ slots' = Append(slots, [type |-> cpu.type, off |-> cpu.write_ptr, size |-> cpu.size])
  /\ cpu' = [cpu EXCEPT !.pc = "push", !.cmd = cpu.write_ptr]
  /\ UNCHANGED <<command_fifo_write_ptr, command_fifo_read_ptr, wakeVars, devVars,
                 requested_renderer, gpu, npublished, dispatched, handled, reconf>>
  /\ UNCHANGED auxVars

(***************************************************************************)
(* CPU thread: PushCommand, PushCommandAndWakeThread, PushCommandAndSync.  *)
(***************************************************************************)
\* Where the CPU thread continues once the current call is over.
AfterCall ==
  CASE cpu.type = "Reconfigure" -> "reconf_ret"
    [] cpu.api = "RequestShutdown" /\ cpu.push = "none" -> "alloc"
    [] cpu.api = "RequestShutdown" /\ cpu.push # "none" -> "done"
    [] OTHER -> "idle"

Continue(c, pc) ==
  CASE pc = "idle" -> CpuIdle(c.ncmds, c.system_valid)
    [] pc = "done" -> [CpuIdle(c.ncmds, c.system_valid) EXCEPT !.pc = "done"]
    [] pc = "alloc" -> [c EXCEPT !.pc = pc, !.ret = "none",
                                 !.push = "PushCommandAndWakeThread"]
    [] OTHER -> [c EXCEPT !.pc = pc, !.ret = "none"]

\* command_fifo_write_ptr.fetch_add(cmd->size, release)
Publish ==
  /\ cpu.pc = "push"
  /\ command_fifo_write_ptr' = command_fifo_write_ptr + cpu.size
  /\ npublished' = npublished + 1
  /\ cpu' = CASE cpu.push = "PushCommand" -> [cpu EXCEPT !.pc = "pending"]
              [] cpu.push = "PushCommandAndWakeThread" ->
                   [cpu EXCEPT !.pc = "wake", !.ret = AfterCall]
              [] cpu.push = "PushCommandAndSync" ->
                   [cpu EXCEPT !.pc = "wake",
                               !.ret = IF cpu.spin THEN "sync_spin" ELSE "sync_cas"]
  /\ UNCHANGED <<command_fifo_data, command_fifo_read_ptr, wakeVars, devVars,
                 requested_renderer, gpu, slots, dispatched, handled, reconf>>
  /\ UNCHANGED auxVars

GetPendingCommandSize ==
  LET read_ptr == command_fifo_read_ptr
      write_ptr == command_fifo_write_ptr
  IN IF write_ptr >= read_ptr THEN write_ptr - read_ptr
                              ELSE COMMAND_QUEUE_SIZE - read_ptr + write_ptr

\* PushCommand with a wake only above the threshold.
PushCommandThresholdStrict ==
  /\ cpu.pc = "pending"
  /\ cpu' = IF GetPendingCommandSize > THRESHOLD_TO_WAKE_GPU
              THEN [cpu EXCEPT !.pc = "wake", !.ret = AfterCall]
              ELSE Continue(cpu, AfterCall)
  /\ UNCHANGED <<ringVars, wakeVars, devVars, requested_renderer, gpu, histVars>>
  /\ UNCHANGED auxVars

\* PushCommand: if (GetPendingCommandSize() >= THRESHOLD_TO_WAKE_GPU) WakeGPUThread();
PushCommandThreshold ==
  /\ cpu.pc = "pending"
  /\ cpu' = IF GetPendingCommandSize >= THRESHOLD_TO_WAKE_GPU
              THEN [cpu EXCEPT !.pc = "wake", !.ret = AfterCall]
              ELSE Continue(cpu, AfterCall)
  /\ UNCHANGED <<ringVars, wakeVars, devVars, requested_renderer, gpu, histVars>>
  /\ UNCHANGED auxVars

\* WakeGPUThread: thread_wake_count.fetch_add(2, release) < 0
WakeGPUThread ==
  /\ cpu.pc = "wake"
  /\ GetThreadWakeCount(thread_wake_count) < MaxWake
  /\ thread_wake_count' = FetchAdd2(thread_wake_count)
  /\ cpu' = IF thread_wake_count < 0 THEN [cpu EXCEPT !.pc = "wake_post"]
                                     ELSE Continue(cpu, cpu.ret)
  /\ UNCHANGED <<ringVars, thread_wake_semaphore, thread_is_done_semaphore, devVars,
                 requested_renderer, gpu, histVars>>
  /\ UNCHANGED auxVars

\* WakeGPUThread: thread_wake_semaphore.Post()
WakePost ==
  /\ cpu.pc = "wake_post"
  /\ thread_wake_semaphore' = thread_wake_semaphore + 1
  /\ cpu' = Continue(cpu, cpu.ret)
  /\ UNCHANGED <<ringVars, thread_wake_count, thread_is_done_semaphore, devVars,
                 requested_renderer, gpu, histVars>>
  /\ UNCHANGED auxVars

\* SyncGPUThread(true): the checks of the spin phase; the phase ends either
\* by seeing the GPU thread asleep or by running out of spin time.
SyncSpin ==
  /\ cpu.pc = "sync_spin"
  /\ cpu' = IF GetThreadWakeCount(thread_wake_count) < 0
              THEN Continue(cpu, AfterCall)
              ELSE [cpu EXCEPT !.pc = "sync_cas"]
  /\ UNCHANGED <<ringVars, wakeVars, devVars, requested_renderer, gpu, histVars>>
  /\ UNCHANGED auxVars

\* SyncGPUThread: the load and the successful compare_exchange that sets
\* THREAD_WAKE_COUNT_CPU_THREAD_IS_WAITING.
SyncSetWaiting ==
  /\ cpu.pc = "sync_cas"
  /\ IF GetThreadWakeCount(thread_wake_count) < 0
       THEN /\ cpu' = Continue(cpu, AfterCall)
            /\ UNCHANGED thread_wake_count
       ELSE /\ thread_wake_count' = OrWaitingBit(thread_wake_count)
            /\ cpu' = [cpu EXCEPT !.pc = "sync_wait"]
  /\ UNCHANGED <<ringVars, thread_wake_semaphore, thread_is_done_semaphore, devVars,
                 requested_renderer, gpu, histVars>>
  /\ UNCHANGED auxVars

\* SyncGPUThread: thread_is_done_semaphore.Wait()
SyncWait ==
  /\ cpu.pc = "sync_wait"
  /\ thread_is_done_semaphore > 0
  /\ thread_is_done_semaphore' = thread_is_done_semaphore - 1
  /\ cpu' = Continue(cpu, AfterCall)
  /\ UNCHANGED <<ringVars, thread_wake_count, thread_wake_semaphore, devVars,
                 requested_renderer, gpu, histVars>>
  /\ UNCHANGED auxVars

\* GPUThread::Reconfigure: return cmd->result, and what the callers
\* CreateGPUBackend and DestroyGPUBackend do with it.  A result field that
\* nobody stored is an uninitialised read: either value.
ReconfigureReturn ==
  /\ cpu.pc = "reconf_ret"
  /\ LET cmd == command_fifo_data[cpu.cmd]
         stored == cmd.result # "uninit"
     IN \E result \in {"true", "false"} :
          /\ stored => result = cmd.result
          /\ reconf' = [reconf EXCEPT !.returned = @ \cup {Len(slots)},
                                      !.last_id = Len(slots),
                                      !.last_result = result,
                                      !.last_stored = stored]
          /\ cpu' = CpuIdle(cpu.ncmds,
                            IF cpu.api = "CreateGPUBackend" THEN result = "true"
                                                            ELSE cpu.system_valid)
  /\ requested_renderer' = IF cpu.api = "DestroyGPUBackend" THEN "nullopt"
                                                            ELSE requested_renderer
  /\ UNCHANGED <<ringVars, wakeVars, devVars, gpu, slots, npublished, dispatched, handled>>
  /\ UNCHANGED auxVars

\* The loop top with SleepGPUThread(true) whatever run_idle_flag holds.
GpuLoopAlwaysSleep ==
  /\ gpu.pc = "loop"
  /\ LET write_ptr == command_fifo_write_ptr
         read_ptr == command_fifo_read_ptr
     IN gpu' = IF read_ptr = write_ptr
                 THEN [gpu EXCEPT !.pc = "sleep", !.read_ptr = read_ptr,
                                  !.write_ptr = write_ptr,
                                  !.allow_sleep = TRUE]
                 ELSE [gpu EXCEPT !.pc = "batch", !.read_ptr = read_ptr,
                                  !.write_ptr = IF write_ptr < read_ptr
                                                  THEN COMMAND_QUEUE_SIZE ELSE write_ptr]
  /\ UNCHANGED <<ringVars, wakeVars, devVars, requested_renderer, cpu, histVars>>
  /\ UNCHANGED auxVars

(***************************************************************************)
(* GPU thread: GPUThreadEntryPoint and SleepGPUThread.                     *)
(***************************************************************************)
\* Top of the for (;;) loop: snapshot write_ptr (acquire) and read_ptr.
GpuLoop ==
  /\ gpu.pc = "loop"
  /\ LET write_ptr == command_fifo_write_ptr
         read_ptr == command_fifo_read_ptr
     IN gpu' = IF read_ptr = write_ptr
                 THEN [gpu EXCEPT !.pc = "sleep", !.read_ptr = read_ptr,
                                  !.write_ptr = write_ptr,
                                  !.allow_sleep = ~run_idle_flag]
                 ELSE [gpu EXCEPT !.pc = "batch", !.read_ptr = read_ptr,
                                  !.write_ptr = IF write_ptr < read_ptr
                                                  THEN COMMAND_QUEUE_SIZE ELSE write_ptr]
  /\ UNCHANGED <<ringVars, wakeVars, devVars, requested_renderer, cpu, histVars>>
  /\ UNCHANGED auxVars

\* SleepGPUThread: the successful compare_exchange on thread_wake_count.
SleepGPUThread ==
  /\ gpu.pc = "sleep"
  /\ LET old_state == thread_wake_count
         new_state == IF GetThreadWakeCount(old_state) > 0
                        THEN AndWaitingBit(old_state)
                        ELSE IF gpu.allow_sleep THEN THREAD_WAKE_COUNT_SLEEPING ELSE 0
     IN /\ thread_wake_count' = new_state
        /\ gpu' = IF GetThreadWakeCount(old_state) > 0
                    THEN [gpu EXCEPT !.pc = "loop"]
                    ELSE IF AndWaitingBit(old_state) # 0
                      THEN [gpu EXCEPT !.pc = "sleep_post"]
                      ELSE [gpu EXCEPT !.pc = IF gpu.allow_sleep THEN "sleep_wait"
                                                                  ELSE "idle_present"]
  /\ UNCHANGED <<ringVars, thread_wake_semaphore, thread_is_done_semaphore, devVars,
                 requested_renderer, cpu, histVars>>
  /\ UNCHANGED auxVars

\* SleepGPUThread: thread_is_done_semaphore.Post()
SleepPostDone ==
  /\ gpu.pc = "sleep_post"
  /\ thread_is_done_semaphore' = thread_is_done_semaphore + 1
  /\ gpu' = [gpu EXCEPT !.pc = IF gpu.allow_sleep THEN "sleep_wait" ELSE "idle_present"]
  /\ UNCHANGED <<ringVars, thread_wake_count, thread_wake_semaphore, devVars,
                 requested_renderer, cpu, histVars>>
  /\ UNCHANGED auxVars

\* SleepGPUThread: thread_wake_semaphore.Wait(), then the for (;;) loop again
SleepWait ==
  /\ gpu.pc = "sleep_wait"
  /\ thread_wake_semaphore > 0
  /\ thread_wake_semaphore' = thread_wake_semaphore - 1
  /\ gpu' = [gpu EXCEPT !.pc = "sleep"]
  /\ UNCHANGED <<ringVars, thread_wake_count, thread_is_done_semaphore, devVars,
                 requested_renderer, cpu, histVars>>
  /\ UNCHANGED auxVars

\* The run-idle branch: PresentFrame(false, 0) and the throttle, then continue.
IdlePresent ==
  /\ gpu.pc = "idle_present"
  /\ gpu' = [gpu EXCEPT !.pc = "loop"]
  /\ UNCHANGED <<ringVars, wakeVars, devVars, requested_renderer, cpu, histVars>>
  /\ UNCHANGED auxVars

\* The lambda of PresentCurrentFrame: PresentFrame(false, 0), then the
\* dispatch loop again.
AsyncPresent ==
  /\ gpu.pc = "present_frame"
  /\ gpu' = [gpu EXCEPT !.pc = "batch"]
  /\ UNCHANGED <<ringVars, wakeVars, devVars, requested_renderer, cpu, histVars>>
  /\ UNCHANGED auxVars

\* End of the while (read_ptr < write_ptr) loop: publish read_ptr.
GpuBatchEnd ==
  /\ gpu.pc = "batch"
  /\ gpu.read_ptr >= gpu.write_ptr
  /\ command_fifo_read_ptr' = gpu.read_ptr
  /\ gpu' = [gpu EXCEPT !.pc = "loop"]
  /\ UNCHANGED <<command_fifo_data, command_fifo_write_ptr, wakeVars, devVars,
                 requested_renderer, cpu, histVars>>
  /\ UNCHANGED auxVars

\* What the GPU thread takes the word at read_ptr for.  A word that holds a
\* header is read as that header.  Any other word is read as some header:
\* one that sends the bytes to the backend, one that wraps or one that shuts
\* the thread down, of any size that stays inside the ring.
HeaderAt(off) ==
  IF command_fifo_data[off].type # "Garbage"
    THEN {command_fifo_data[off]}
    ELSE {[Garbage EXCEPT !.type = t, !.size = sz] :
            t \in {"Wraparound", "Shutdown", "UpdateVRAM"},
            sz \in {z \in 4..(COMMAND_QUEUE_SIZE - off) : z % 4 = 0}}

CanDispatch == gpu.pc = "batch" /\ gpu.read_ptr < gpu.write_ptr

\* read_ptr += cmd->size
Advance(cmd) == [gpu EXCEPT !.read_ptr = @ + cmd.size]

\* A word that is no header may also stop the thread for good (a failed
\* assertion, a call through an invalid pointer), and so do a backend
\* command that finds no backend and a header whose size field lies behind
\* the end of the ring.
GpuCrash ==
  /\ CanDispatch
  /\ \E cmd \in HeaderAt(gpu.read_ptr) :
       \/ command_fifo_data[gpu.read_ptr].type = "Garbage"
       \/ TypeOrd[cmd.type] > TypeOrd["Shutdown"] /\ gpu_backend.kind = "null"
       \/ gpu.read_ptr + SizeofBackendCommand > COMMAND_QUEUE_SIZE
  /\ gpu' = [gpu EXCEPT !.pc = "crashed"]
  /\ UNCHANGED <<ringVars, wakeVars, devVars, requested_renderer, cpu, histVars>>
  /\ UNCHANGED auxVars

\* cmd->type > Shutdown: gpu_backend->HandleCommand(cmd)
DispatchBackend ==
  /\ CanDispatch
  /\ gpu_backend.kind # "null"
  /\ \E cmd \in HeaderAt(gpu.read_ptr) :
       /\ TypeOrd[cmd.type] > TypeOrd["Shutdown"]
       /\ gpu' = Advance(cmd)
       /\ dispatched' = Append(dispatched, cmd.id)
       /\ handled' = Append(handled, cmd.id)
  /\ UNCHANGED <<ringVars, wakeVars, devVars, requested_renderer, cpu, slots,
                 npublished, reconf>>
  /\ UNCHANGED auxVars

\* case Wraparound, first half: reload write_ptr, read_ptr = 0
DispatchWraparound ==
  /\ CanDispatch
  /\ \E cmd \in HeaderAt(gpu.read_ptr) :
       /\ cmd.type = "Wraparound"
       /\ gpu' = [gpu EXCEPT !.pc = "wrap_store", !.read_ptr = 0,
                             !.write_ptr = command_fifo_write_ptr]
       /\ dispatched' = Append(dispatched, cmd.id)
  /\ UNCHANGED <<ringVars, wakeVars, devVars, requested_renderer, cpu, slots,
                 npublished, handled, reconf>>
  /\ UNCHANGED auxVars

\* case Wraparound, second half: command_fifo_read_ptr.store(read_ptr, release)
WraparoundStore ==
  /\ gpu.pc = "wrap_store"
  /\ command_fifo_read_ptr' = gpu.read_ptr
  /\ gpu' = [gpu EXCEPT !.pc = "batch"]
  /\ UNCHANGED <<command_fifo_data, command_fifo_write_ptr, wakeVars, devVars,
                 requested_renderer, cpu, histVars>>
  /\ UNCHANGED auxVars

\* DispatchAsyncCall with a callable that queues another call from the GPU
\* thread (RunOnThread inside the callable): the GPU thread moves the write
\* cursor.
DispatchAsyncCallRequeue ==
  /\ CanDispatch
  /\ \E cmd \in HeaderAt(gpu.read_ptr) :
       /\ cmd.type = "AsyncCall"
       /\ gpu' = Advance(cmd)
       /\ dispatched' = Append(dispatched, cmd.id)
       /\ command_fifo_write_ptr' =
            IF command_fifo_write_ptr + cmd.size < COMMAND_QUEUE_SIZE
              THEN command_fifo_write_ptr + cmd.size ELSE 0
  /\ UNCHANGED <<command_fifo_data, command_fifo_read_ptr, wakeVars, devVars,
                 requested_renderer, cpu, slots, npublished, handled, reconf>>
  /\ UNCHANGED auxVars

\* case AsyncCall: acmd->func(); the callables the CPU thread hands over are
\* SetRunIdleOnThread(enabled), the two of Start/StopFullscreenUI and the one
\* of PresentCurrentFrame, which goes on to PresentFrame unless run_idle_flag
\* is set.
DispatchAsyncCall ==
  /\ CanDispatch
  /\ \E cmd \in HeaderAt(gpu.read_ptr) :
       /\ cmd.type = "AsyncCall"
       /\ gpu' = IF cmd.func = "PresentCurrentFrame" /\ ~run_idle_flag
                   THEN [Advance(cmd) EXCEPT !.pc = "present_frame"]
                   ELSE Advance(cmd)
       /\ dispatched' = Append(dispatched, cmd.id)
       /\ run_idle_flag' = CASE cmd.func = "SetRunIdleOn" -> TRUE
                             [] cmd.func = "SetRunIdleOff" -> FALSE
                             [] OTHER -> run_idle_flag
       /\ requested_fullscreen_ui' =
            IF cmd.func \in {"StartFullscreenUI", "StopFullscreenUI"}
              THEN TRUE ELSE requested_fullscreen_ui
  /\ UNCHANGED <<ringVars, wakeVars, gpu_backend, g_gpu_device, fsui_initialized,
                 requested_renderer, cpu, slots, npublished, handled, reconf>>
  /\ UNCHANGED auxVars

\* case Shutdown: publish read_ptr and return from the entry point
DispatchShutdown ==
  /\ CanDispatch
  /\ \E cmd \in HeaderAt(gpu.read_ptr) :
       /\ cmd.type = "Shutdown"
       /\ gpu' = [Advance(cmd) EXCEPT !.pc = "exited"]
       /\ command_fifo_read_ptr' = gpu.read_ptr + cmd.size
       /\ dispatched' = Append(dispatched, cmd.id)
  /\ UNCHANGED <<command_fifo_data, command_fifo_write_ptr, wakeVars, devVars,
                 requested_renderer, cpu, slots, npublished, handled, reconf>>
  /\ UNCHANGED auxVars

\* case Reconfigure: enter ReconfigureOnThread(cmd)
DispatchReconfigure ==
  /\ CanDispatch
  /\ \E cmd \in HeaderAt(gpu.read_ptr) :
       /\ cmd.type = "Reconfigure"
       /\ gpu' = [Advance(cmd) EXCEPT !.pc = "reconf_a", !.cmd = gpu.read_ptr,
                                      !.id = cmd.id]
       /\ dispatched' = Append(dispatched, cmd.id)
  /\ UNCHANGED <<ringVars, wakeVars, devVars, requested_renderer, cpu, slots,
                 npublished, handled, reconf>>
  /\ UNCHANGED auxVars

(***************************************************************************)
(* CPU thread: Internal::RequestShutdown.                                  *)
(***************************************************************************)
\* if (GetPendingCommandSize() > 0) { WakeGPUThread(); SyncGPUThread(false); }
\* then AllocateCommand(Shutdown) and PushCommandAndWakeThread.
RequestShutdown ==
  /\ cpu.pc = "idle"
  /\ LET c == [cpu EXCEPT !.api = "RequestShutdown", !.type = "Shutdown",
                          !.size = AlignUpPow2(SizeofThreadCommand)]
     IN cpu' = IF GetPendingCommandSize > 0
                 THEN [c EXCEPT !.pc = "wake", !.ret = "sync_cas"]
                 ELSE [c EXCEPT !.pc = "alloc", !.push = "PushCommandAndWakeThread"]
  /\ UNCHANGED <<ringVars, wakeVars, devVars, requested_renderer, gpu, histVars>>
  /\ UNCHANGED auxVars

(***************************************************************************)
(* GPU thread: ReconfigureOnThread and what it calls.                      *)
(***************************************************************************)
\* DestroyDeviceOnThread: FullscreenUI::Shutdown() and g_gpu_device.reset(),
\* both only when a device exists.  The pair is <<device, fsui_initialized>>.
DestroyDeviceOnThread(dev) ==
  IF dev[1] = "None" THEN dev ELSE <<"None", FALSE>>

\* CreateDeviceOnThread(api, ...): ok stands for the outcome of the device,
\* the window, ImGuiManager and (when requested) FullscreenUI::Initialize.
CreateDeviceOnThread(api, ok, fsui_requested) ==
  IF ok THEN <<api, fsui_requested>> ELSE <<"None", FALSE>>

\* CreateGPUBackendOnThread(renderer, ...): hw_ok and sw_ok are the outcomes
\* of GPUBackend::Initialize for the hardware and the software backend.  The
\* triple is <<gpu_backend, requested_renderer, return value>>.
CreateGPUBackendOnThread(renderer, hw_ok, sw_ok, req) ==
  LET is_hardware == renderer # "Software"
      okay == IF is_hardware THEN hw_ok ELSE sw_ok
  IN IF okay
       THEN <<[kind |-> IF is_hardware THEN "Hardware" ELSE "Software",
               initialized |-> TRUE], req, TRUE>>
       ELSE IF is_hardware
         THEN <<[kind |-> "Software", initialized |-> sw_ok], "Software", sw_ok>>
         ELSE <<[kind |-> "Software", initialized |-> FALSE], req, FALSE>>

BoolStr(b) == IF b THEN "true" ELSE "false"

\* ReconfigureOnThread, first part: store the requested state, then either
\* shut everything down and return, or destroy the old backend.
ReconfigureOnThreadBegin ==
  /\ gpu.pc = "reconf_a"
  /\ LET cmd == command_fifo_data[gpu.cmd]
         fsui == IF cmd.start_fullscreen_ui = "nullopt" THEN requested_fullscreen_ui
                                                        ELSE cmd.start_fullscreen_ui = "true"
         dev == DestroyDeviceOnThread(<<g_gpu_device, fsui_initialized>>)
     IN /\ requested_fullscreen_ui' = fsui
        /\ gpu_backend' = NoBackend
        /\ IF cmd.renderer = "nullopt" /\ ~fsui
             THEN /\ g_gpu_device' = dev[1]
                  /\ fsui_initialized' = dev[2]
                  /\ reconf' = [reconf EXCEPT !.finished = @ \cup {gpu.id},
                                              !.teardown = @ \cup {gpu.id}]
                  /\ gpu' = [gpu EXCEPT !.pc = "batch"]
             ELSE /\ UNCHANGED <<g_gpu_device, fsui_initialized, reconf>>
                  /\ gpu' = [gpu EXCEPT !.pc = "reconf_b"]
  /\ UNCHANGED <<ringVars, wakeVars, run_idle_flag, requested_renderer, cpu, slots,
                 npublished, dispatched, handled>>
  /\ UNCHANGED auxVars

\* ReconfigureOnThread, second part: device recreation with rollback, then
\* the backend or the fullscreen UI.  The tuple is <<device, fsui_initialized,
\* gpu_backend, requested_renderer, result>>, result "uninit" when the path
\* stores none.
ReconfigureOutcome(cmd, ok1, ok2, hw_ok, sw_ok, fs_ok) ==
  LET current_api == g_gpu_device
      expected_api ==
        IF cmd.renderer = "Software" /\ current_api # "None"
          THEN current_api
          ELSE GetRenderAPIForRenderer(IF requested_renderer # "nullopt"
                                         THEN requested_renderer ELSE SettingsGpuRenderer)
      recreate == cmd.force_recreate_device \/ current_api # expected_api
      first == CreateDeviceOnThread(expected_api, ok1, requested_fullscreen_ui)
      rollback == CreateDeviceOnThread(current_api, ok2, requested_fullscreen_ui)
      failed == recreate /\ first[1] = "None"
                  /\ (current_api = "None" \/ rollback[1] = "None")
      dev == IF ~recreate THEN <<g_gpu_device, fsui_initialized>>
             ELSE IF first[1] # "None" THEN first
             ELSE IF current_api # "None" THEN rollback
             ELSE <<"None", FALSE>>
  IN IF failed
       THEN <<"None", FALSE, gpu_backend, requested_renderer, "false">>
     ELSE IF cmd.renderer # "nullopt"
       THEN LET b == CreateGPUBackendOnThread(cmd.renderer, hw_ok, sw_ok, requested_renderer)
            IN <<dev[1], dev[2], b[1], b[2], BoolStr(b[3])>>
     ELSE IF requested_fullscreen_ui
       THEN LET d == IF dev[1] = "None"
                       THEN CreateDeviceOnThread(expected_api, ok2, requested_fullscreen_ui)
                       ELSE dev
            IN IF d[1] = "None"
                 THEN <<"None", FALSE, gpu_backend, requested_renderer, "false">>
                 ELSE <<d[1], d[2] \/ fs_ok, gpu_backend, requested_renderer,
                        BoolStr(d[2] \/ fs_ok)>>
     ELSE LET d == DestroyDeviceOnThread(dev)
          IN <<d[1], d[2], gpu_backend, requested_renderer, "uninit">>

ReconfigureOnThreadEnd ==
  /\ gpu.pc = "reconf_b"
  /\ \E ok1, ok2, hw_ok, sw_ok, fs_ok \in BOOLEAN :
       LET out == ReconfigureOutcome(command_fifo_data[gpu.cmd], ok1, ok2, hw_ok, sw_ok, fs_ok)
       IN /\ g_gpu_device' = out[1]
          /\ fsui_initialized' = out[2]
          /\ gpu_backend' = out[3]
          /\ requested_renderer' = out[4]
          /\ command_fifo_data' =
               IF out[5] = "uninit" THEN command_fifo_data
               ELSE [command_fifo_data EXCEPT ![gpu.cmd].result = out[5]]
  /\ reconf' = [reconf EXCEPT !.finished = @ \cup {gpu.id}]
  /\ gpu' = [gpu EXCEPT !.pc = "batch"]
  /\ UNCHANGED <<command_fifo_write_ptr, command_fifo_read_ptr, wakeVars, run_idle_flag,
                 requested_fullscreen_ui, cpu, slots, npublished, dispatched, handled>>
  /\ UNCHANGED auxVars

(***************************************************************************)
(* Frame queue: GPUThread::PushCommandAndFrame on the CPU thread, the       *)
(* handling of the UpdateDisplay command on the GPU thread.                *)
(***************************************************************************)
mainVars == <<ringVars, wakeVars, devVars, requested_renderer, cpu, gpu, histVars>>

\* GPUBackend::BeginQueueFrame: count the frame; TRUE when the count now
\* exceeds the limit.
BeginQueueFrame(f) ==
  [f EXCEPT !.m_queued_frames = @ + 1,
            !.drain_one = (f.m_queued_frames + 1 > MaxQueuedFrames)]

\* PushCommandAndFrame, line 1:
\* drain_one = cmd->present_frame && gpu_backend->BeginQueueFrame()
PushCommandAndFrame ==
  /\ frames.pc = "idle"
  /\ frames.ncalls < MaxFrames
  /\ \E present_frame \in BOOLEAN :
       frames' = [(IF present_frame THEN BeginQueueFrame(frames)
                                    ELSE [frames EXCEPT !.drain_one = FALSE])
                    EXCEPT !.pc = "push", !.present_frame = present_frame,
                           !.ncalls = @ + 1]
  /\ UNCHANGED <<mainVars, present, worker>>

\* PushCommandAndFrame: PushCommandAndWakeThread(cmd); the command is
\* published before the CPU thread waits.
FramePushAndWake ==
  /\ frames.pc = "push"
  /\ frames' = [frames EXCEPT !.queue = Append(@, frames.present_frame),
                              !.pc = IF frames.drain_one THEN "wait" ELSE "idle"]
  /\ UNCHANGED <<mainVars, present, worker>>

\* PushCommandAndFrame: if (drain_one) gpu_backend->WaitForOneQueuedFrame()
WaitForOneQueuedFrame ==
  /\ frames.pc = "wait"
  /\ frames.semaphore > 0
  /\ frames' = [frames EXCEPT !.semaphore = @ - 1, !.pc = "idle"]
  /\ UNCHANGED <<mainVars, present, worker>>

\* GPU thread: the UpdateDisplay command at the head of the ring; a command
\* with present_frame presents, takes the frame off the count and posts the
\* semaphore.
HandleUpdateDisplay ==
  /\ frames.queue # << >>
  /\ frames' = IF Head(frames.queue)
                 THEN [frames EXCEPT !.queue = Tail(@), !.m_queued_frames = @ - 1,
                                     !.semaphore = @ + 1]
                 ELSE [frames EXCEPT !.queue = Tail(@)]
  /\ UNCHANGED <<mainVars, present, worker>>

FrameNext ==
  \/ PushCommandAndFrame \/ FramePushAndWake \/ WaitForOneQueuedFrame
  \/ HandleUpdateDisplay

FrameSpec == Init /\ [][FrameNext]_vars

(***************************************************************************)
(* GPU thread: Internal::PresentFrame and HandleGPUDeviceLost, from the    *)
(* state the first CreateGPUBackend or StartFullscreenUI leaves behind.    *)
(* The ring, the wake state and both threads' positions stay as they are.  *)
(***************************************************************************)
\* The state once the first Reconfigure command has been handled and
\* Reconfigure has returned: one slot in the ring, both cursors behind it,
\* the GPU thread asleep.
Started(renderer, fsui, device, backend, requested) ==
  /\ command_fifo_data =
       StoreAt([o \in Offsets |-> Garbage], 0, SizeofReconfigureCommand,
               [Garbage EXCEPT !.type = "Reconfigure", !.size = SizeofReconfigureCommand,
                               !.id = 1, !.renderer = renderer,
                               !.start_fullscreen_ui = IF fsui THEN "true" ELSE "nullopt",
                               !.result = "true"])
  /\ command_fifo_write_ptr = SizeofReconfigureCommand
  /\ command_fifo_read_ptr = SizeofReconfigureCommand
  /\ thread_wake_count = THREAD_WAKE_COUNT_SLEEPING
  /\ thread_wake_semaphore = 0
  /\ thread_is_done_semaphore = 0
  /\ gpu_backend = backend
  /\ g_gpu_device = device
  /\ fsui_initialized = fsui
  /\ run_idle_flag = FALSE
  /\ requested_fullscreen_ui = fsui
  /\ requested_renderer = requested
  /\ cpu = CpuIdle(1, renderer # "nullopt")
  /\ gpu = [GpuStart EXCEPT !.pc = "sleep_wait", !.read_ptr = SizeofReconfigureCommand,
                            !.write_ptr = SizeofReconfigureCommand, !.id = 1,
                            !.allow_sleep = TRUE]
  /\ slots = <<[type |-> "Reconfigure", off |-> 0, size |-> SizeofReconfigureCommand]>>
  /\ npublished = 1
  /\ dispatched = <<1>>
  /\ handled = << >>
  /\ reconf = [NoReconf EXCEPT !.finished = {1}, !.returned = {1}, !.last_id = 1,
                               !.last_result = "true", !.last_stored = TRUE]

\* CreateGPUBackend(Hardware), the same with the fallback to the software
\* renderer, CreateGPUBackend(Software), or StartFullscreenUI with no system.
StartedSystem ==
  \/ Started("Hardware", FALSE, "HardwareAPI",
             [kind |-> "Hardware", initialized |-> TRUE], "Hardware")
  \/ Started("Hardware", FALSE, "HardwareAPI",
             [kind |-> "Software", initialized |-> TRUE], "Software")
  \/ Started("Software", FALSE, "PreferredAPI",
             [kind |-> "Software", initialized |-> TRUE], "Software")
  \/ Started("nullopt", TRUE, "HardwareAPI", NoBackend, "nullopt")

\* The window is fullscreen or not, and the device has a swap chain or is
\* surfaceless, as the host chose.
PresentInit ==
  /\ StartedSystem
  /\ frames = NoFrames
  /\ worker = NoWorker
  /\ \E fullscreen, has_swap_chain \in BOOLEAN :
       present = [NoPresent EXCEPT !.host_fullscreen = fullscreen,
                                   !.device_fullscreen = fullscreen,
                                   !.has_swap_chain = has_swap_chain]

\* GPUDevice::PresentResult
PresentResults == {"OK", "SkipPresent", "DeviceLost", "ExclusiveFullscreenLost"}

\* skip_present with the counter compared by <=
SkipPresentInclusive(has_swap_chain, allow_skip_present, should_skip, count) ==
  ~has_swap_chain \/ (allow_skip_present /\ should_skip /\ count <= MAX_SKIPPED_PRESENT_COUNT)

\* const bool skip_present = (!HasMainSwapChain() || (allow_skip_present &&
\*   ShouldSkipPresentingFrame() && skipped_present_count < MAX_SKIPPED_PRESENT_COUNT))
SkipPresent(has_swap_chain, allow_skip_present, should_skip, count) ==
  ~has_swap_chain \/ (allow_skip_present /\ should_skip /\ count < MAX_SKIPPED_PRESENT_COUNT)

\* The rate limit with the interval compared by <=
ResetTooSoonInclusive(s_last_gpu_reset_time, current_time) ==
  /\ s_last_gpu_reset_time # 0
  /\ (current_time - s_last_gpu_reset_time) <= MIN_TIME_BETWEEN_RESETS

\* s_last_gpu_reset_time != 0 &&
\*   ConvertValueToSeconds(current_time - s_last_gpu_reset_time) < MIN_TIME_BETWEEN_RESETS
ResetTooSoon(s_last_gpu_reset_time, current_time) ==
  /\ s_last_gpu_reset_time # 0
  /\ (current_time - s_last_gpu_reset_time) < MIN_TIME_BETWEEN_RESETS

\* Host::IsFullscreen() once Host::ReleaseRenderWindow() has run: the host
\* may have left fullscreen with the window (kept says it has not).
ReleaseRenderWindow(fullscreen, kept) == fullscreen /\ kept

\* HandleGPUDeviceLost with Host::IsFullscreen() read after the teardown.
HandleGPUDeviceLostLateSample(p, device, backend, requested, in) ==
  IF ResetTooSoon(p.s_last_gpu_reset_time, p.now)
    THEN [p |-> [p EXCEPT !.pc = "panic"], device |-> device, backend |-> backend,
          requested |-> requested, loss |-> "fatal_rate"]
    ELSE LET released == ReleaseRenderWindow(p.host_fullscreen, in.kept)
             is_fullscreen == released
             api == GetRenderAPIForRenderer(IF requested # "nullopt" THEN requested
                                                                   ELSE SettingsGpuRenderer)
             d == CreateDeviceOnThread(api, in.device_ok, requested_fullscreen_ui)
             b == IF in.device_ok /\ requested # "nullopt"
                    THEN CreateGPUBackendOnThread(requested, in.hw_ok, in.sw_ok, requested)
                    ELSE <<NoBackend, requested, TRUE>>
             ok == in.device_ok /\ b[3]
         IN [p |-> [p EXCEPT !.s_last_gpu_reset_time = p.now,
                             !.pc = IF ok THEN "idle" ELSE "panic",
                             !.host_fullscreen = IF in.device_ok THEN is_fullscreen ELSE released,
                             !.device_fullscreen = in.device_ok /\ is_fullscreen,
                             !.has_swap_chain = in.device_ok /\ in.new_swap_chain,
                             !.osd_warnings = IF ok THEN @ + 1 ELSE @],
             device |-> d, backend |-> b[1], requested |-> b[2],
             loss |-> IF ok THEN "recovered" ELSE "fatal_create"]

\* HandleGPUDeviceLost: the rate limit, then is_fullscreen, the teardown of
\* backend and device, CreateDeviceOnThread and (with a requested renderer)
\* CreateGPUBackendOnThread, Panic when either fails, else the OSD warning.
\* p is the state of PresentFrame, in the outcomes of the calls made.
HandleGPUDeviceLost(p, device, backend, requested, in) ==
  IF ResetTooSoon(p.s_last_gpu_reset_time, p.now)
    THEN [p |-> [p EXCEPT !.pc = "panic"], device |-> device, backend |-> backend,
          requested |-> requested, loss |-> "fatal_rate"]
    ELSE LET is_fullscreen == p.host_fullscreen
             released == ReleaseRenderWindow(p.host_fullscreen, in.kept)
             api == GetRenderAPIForRenderer(IF requested # "nullopt" THEN requested
                                                                   ELSE SettingsGpuRenderer)
             d == CreateDeviceOnThread(api, in.device_ok, requested_fullscreen_ui)
             b == IF in.device_ok /\ requested # "nullopt"
                    THEN CreateGPUBackendOnThread(requested, in.hw_ok, in.sw_ok, requested)
                    ELSE <<NoBackend, requested, TRUE>>
             ok == in.device_ok /\ b[3]
         IN [p |-> [p EXCEPT !.s_last_gpu_reset_time = p.now,
                             !.pc = IF ok THEN "idle" ELSE "panic",
                             !.host_fullscreen = IF in.device_ok THEN is_fullscreen ELSE released,
                             !.device_fullscreen = in.device_ok /\ is_fullscreen,
                             !.has_swap_chain = in.device_ok /\ in.new_swap_chain,
                             !.osd_warnings = IF ok THEN @ + 1 ELSE @],
             device |-> d, backend |-> b[1], requested |-> b[2],
             loss |-> IF ok THEN "recovered" ELSE "fatal_create"]

\* PresentFrame without the ImGui::EndFrame() of its else branch.
ImGuiCallsNoKick(pres, loss, device_ok) ==
  CASE pres = "OK" -> <<"RenderImGui", "NewFrame">>
    [] pres = "DeviceLost" /\ loss = "fatal_rate" -> << >>
    [] pres = "DeviceLost" /\ loss = "fatal_create" ->
         IF device_ok THEN <<"Shutdown", "Initialize">> ELSE <<"Shutdown">>
    [] pres = "DeviceLost" /\ loss = "recovered" ->
         <<"Shutdown", "Initialize", "NewFrame">>
    [] OTHER -> <<"NewFrame">>

\* The calls of one PresentFrame that bear on the ImGui frame, in order:
\* RenderImGui when the present is OK, else ImGui::EndFrame(), then
\* ImGuiManager::NewFrame(); before them, when the device is lost,
\* ImGuiManager::Shutdown() of DestroyDeviceOnThread and
\* ImGuiManager::Initialize() of CreateDeviceOnThread.  A Panic in
\* HandleGPUDeviceLost ends the list.
ImGuiCalls(pres, loss, device_ok) ==
  CASE pres = "OK" -> <<"RenderImGui", "NewFrame">>
    [] pres = "DeviceLost" /\ loss = "fatal_rate" -> << >>
    [] pres = "DeviceLost" /\ loss = "fatal_create" ->
         IF device_ok THEN <<"Shutdown", "Initialize">> ELSE <<"Shutdown">>
    [] pres = "DeviceLost" /\ loss = "recovered" ->
         <<"Shutdown", "Initialize", "EndFrame", "NewFrame">>
    [] OTHER -> <<"EndFrame", "NewFrame">>

\* PresentFrame, the OK branch after RenderImGui: the device calls made for
\* a present with or without a scheduled time (present_time != 0) on a
\* device with the given features.explicit_present and
\* features.timed_present.
PacingCalls(scheduled_present, features_explicit_present, features_timed_present) ==
  LET explicit_present == scheduled_present
                            /\ (features_explicit_present /\ ~features_timed_present)
      timed_present == scheduled_present /\ features_timed_present
  IN (IF scheduled_present /\ ~explicit_present
        THEN <<"FlushCommands", "SleepUntilPresentTime">> ELSE << >>)
     \o <<IF explicit_present THEN "EndPresent(true, 0)"
          ELSE IF timed_present THEN "EndPresent(false, present_time)"
          ELSE "EndPresent(false, 0)">>
     \o (IF explicit_present THEN <<"SleepUntilPresentTime", "SubmitPresent">> ELSE << >>)

\* The outcomes a PresentFrame call may meet: the present's result when it
\* is attempted, its scheduled time and the device's features when it is
\* OK, and the outcomes of the calls HandleGPUDeviceLost makes when the
\* device is lost.
PresentInputs(skip_present, returned) ==
  LET results == IF skip_present THEN {"SkipPresent"} ELSE returned
      recreate == [device_ok : BOOLEAN, hw_ok : BOOLEAN, sw_ok : BOOLEAN, kept : BOOLEAN,
                   new_swap_chain : BOOLEAN]
      fine == [device_ok |-> TRUE, hw_ok |-> TRUE, sw_ok |-> TRUE, kept |-> TRUE,
               new_swap_chain |-> TRUE]
      paces == [scheduled : BOOLEAN, explicit_present : BOOLEAN, timed_present : BOOLEAN]
      unpaced == [scheduled |-> FALSE, explicit_present |-> FALSE, timed_present |-> FALSE]
  IN UNION {{[result |-> r, device_ok |-> o.device_ok, hw_ok |-> o.hw_ok, sw_ok |-> o.sw_ok,
              kept |-> o.kept, new_swap_chain |-> o.new_swap_chain,
              scheduled |-> f.scheduled, explicit_present |-> f.explicit_present,
              timed_present |-> f.timed_present] :
               o \in (IF r = "DeviceLost" THEN recreate ELSE {fine}),
               f \in (IF r = "OK" THEN paces ELSE {unpaced})} : r \in results}

\* Internal::PresentFrame(allow_skip_present, present_time), one whole call,
\* with the device returning one of `returned` and no failed call once
\* skipped_present_count has reached cap.
PresentFrameCall(returned, cap) ==
  /\ present.pc = "idle"
  /\ \E allow_skip_present, should_skip \in BOOLEAN :
     \E in \in PresentInputs(SkipPresent(present.has_swap_chain, allow_skip_present,
                                         should_skip, present.skipped_present_count),
                             returned) :
       LET skip_present == SkipPresent(present.has_swap_chain, allow_skip_present,
                                       should_skip, present.skipped_present_count)
           pres == IF skip_present THEN "SkipPresent" ELSE in.result
           lost == pres = "DeviceLost"
           refused == ~skip_present /\ pres \in {"SkipPresent", "ExclusiveFullscreenLost"}
           call == [skip_present |-> skip_present, pres |-> pres, loss |-> "none",
                    gap |-> IF lost /\ present.last_loss # -1
                              THEN present.now - present.last_loss ELSE -1,
                    is_fullscreen |-> lost /\ present.host_fullscreen,
                    requested |-> IF lost THEN requested_renderer ELSE "nullopt",
                    warnings |-> IF lost THEN present.osd_warnings ELSE 0,
                    capped |-> present.streak = MAX_SKIPPED_PRESENT_COUNT,
                    device_ok |-> in.device_ok, hw_ok |-> in.hw_ok, sw_ok |-> in.sw_ok,
                    imgui |-> ImGuiCalls(pres, "none", in.device_ok),
                    scheduled |-> in.scheduled,
                    explicit_present |-> in.explicit_present,
                    timed_present |-> in.timed_present,
                    pacing |-> IF pres = "OK"
                                 THEN PacingCalls(in.scheduled, in.explicit_present,
                                                  in.timed_present)
                                 ELSE << >>]
           counted == [present EXCEPT
                         !.skipped_present_count = @ + 1,
                         !.streak = IF skip_present /\ present.has_swap_chain
                                      THEN @ + 1 ELSE 0,
                         !.failed = IF refused THEN @ + 1 ELSE @,
                         !.last_loss = IF lost THEN present.now ELSE @]
       IN /\ pres # "OK" => present.skipped_present_count < cap
          /\ refused => present.failed < MaxFailedPresents
          /\ CASE pres = "OK" ->
                    /\ present' = [present EXCEPT !.skipped_present_count = 0,
                                                  !.streak = 0, !.last = call]
                    /\ UNCHANGED <<gpu_backend, g_gpu_device, fsui_initialized,
                                   requested_renderer>>
               [] pres = "DeviceLost" ->
                    LET out == HandleGPUDeviceLost(counted,
                                                   <<g_gpu_device, fsui_initialized>>,
                                                   gpu_backend, requested_renderer, in)
                    IN /\ present' = [out.p EXCEPT !.last =
                                         [call EXCEPT !.loss = out.loss,
                                                      !.imgui = ImGuiCalls(pres, out.loss,
                                                                           in.device_ok)]]
                       /\ g_gpu_device' = out.device[1]
                       /\ fsui_initialized' = out.device[2]
                       /\ gpu_backend' = out.backend
                       /\ requested_renderer' = out.requested
               [] pres = "ExclusiveFullscreenLost" ->
                    /\ present' = [counted EXCEPT !.host_fullscreen = FALSE, !.last = call]
                    /\ UNCHANGED <<gpu_backend, g_gpu_device, fsui_initialized,
                                   requested_renderer>>
               [] OTHER ->
                    /\ present' = [counted EXCEPT !.last = call]
                    /\ UNCHANGED <<gpu_backend, g_gpu_device, fsui_initialized,
                                   requested_renderer>>
  /\ UNCHANGED <<ringVars, wakeVars, run_idle_flag, requested_fullscreen_ui, cpu, gpu,
                 histVars, frames, worker>>

\* PresentFrame on a device that may be lost, early in a run of skips.
PresentFrame == PresentFrameCall(PresentResults, MaxLossCount)

\* PresentFrame on a device that is not lost, through a whole run of skips.
PresentFrameSkips == PresentFrameCall({"OK", "SkipPresent"}, MaxSkippedCount)

\* Common::Timer::GetCurrentValue() moves on between two calls.
Tick ==
  /\ present.pc = "idle"
  /\ \E d \in {MIN_TIME_BETWEEN_RESETS - 1, MIN_TIME_BETWEEN_RESETS} :
       /\ present.now + d <= MaxTime
       /\ present' = [present EXCEPT !.now = @ + d]
  /\ UNCHANGED <<mainVars, frames, worker>>

PresentNext == PresentFrame \/ Tick

PresentSpec == PresentInit /\ [][PresentNext]_vars

SkipSpec == PresentInit /\ [][PresentFrameSkips]_vars

(***************************************************************************)
(* Reconfigure as one synchronous call: the CPU thread's entry point, the  *)
(* command's trip through the ring and ReconfigureOnThread on the GPU      *)
(* thread, with VRAM, the OSD and the caller's Error.  The ring, the wake  *)
(* state and the GPU thread's position stay as they are.                   *)
(***************************************************************************)
\* VRAM contents: cleared, or a picture.
Pixels == {"zero", "gradient"}

\* The hardware backend's Initialize(upload_vram): its VRAM texture starts
\* from g_vram or cleared.
HardwareInitialize(upload_vram, g_vram) == IF upload_vram THEN g_vram ELSE "zero"

\* GPU_SW::Initialize: g_vram afterwards; memset only when !upload_vram.
SoftwareInitialize(upload_vram, okay, g_vram) ==
  IF okay /\ ~upload_vram THEN "zero" ELSE g_vram

\* HandleCommand(ReadVRAM) over the whole of VRAM: g_vram afterwards.  The
\* hardware backend downloads its texture, the software backend draws in
\* g_vram itself.
ReadVRAM(backend, g_vram, texture) ==
  IF backend.kind = "Hardware" /\ backend.initialized THEN texture ELSE g_vram

\* What the active backend holds as VRAM.
BackendVRAM(backend, g_vram, texture) ==
  IF backend.kind = "Hardware" THEN texture ELSE g_vram

\* CreateGPUBackendOnThread whose fallback initialises the software backend
\* with upload_vram = false.
BackendCreationFreshVRAM(renderer, upload_vram, has_error_ptr, hw_ok, sw_ok, v) ==
  LET is_hardware == renderer # "Software"
      kind == IF is_hardware THEN "Hardware" ELSE "Software"
      okay == IF is_hardware THEN hw_ok ELSE sw_ok
      one == [v EXCEPT !.gpu_backend = [kind |-> kind, initialized |-> okay],
                       !.inits = Append(@, <<kind, upload_vram, okay>>),
                       !.g_vram = IF is_hardware
                                    THEN @ ELSE SoftwareInitialize(upload_vram, sw_ok, @),
                       !.texture = IF is_hardware /\ hw_ok
                                     THEN HardwareInitialize(upload_vram, v.g_vram)
                                     ELSE "none"]
      two == [one EXCEPT !.osd = Append(@, "GPUBackendCreationFailed"),
                         !.requested_renderer = "Software",
                         !.gpu_backend = [kind |-> "Software", initialized |-> sw_ok],
                         !.inits = Append(@, <<"Software", FALSE, sw_ok>>),
                         !.g_vram = SoftwareInitialize(FALSE, sw_ok, @)]
      copied == IF has_error_ptr THEN "backend" ELSE "none"
  IN IF okay THEN [one EXCEPT !.result = "true"]
     ELSE IF is_hardware
       THEN [two EXCEPT !.result = BoolStr(sw_ok),
                        !.error = IF sw_ok THEN @ ELSE copied]
       ELSE [one EXCEPT !.result = "false", !.error = copied]

\* CreateGPUBackendOnThread with the upload_vram flag, the OSD message and
\* the caller's Error; hw_ok and sw_ok are the outcomes of Initialize.  v
\* holds the worker's state and the call's record.
BackendCreation(renderer, upload_vram, has_error_ptr, hw_ok, sw_ok, v) ==
  LET is_hardware == renderer # "Software"
      kind == IF is_hardware THEN "Hardware" ELSE "Software"
      okay == IF is_hardware THEN hw_ok ELSE sw_ok
      one == [v EXCEPT !.gpu_backend = [kind |-> kind, initialized |-> okay],
                       !.inits = Append(@, <<kind, upload_vram, okay>>),
                       !.g_vram = IF is_hardware
                                    THEN @ ELSE SoftwareInitialize(upload_vram, sw_ok, @),
                       !.texture = IF is_hardware /\ hw_ok
                                     THEN HardwareInitialize(upload_vram, v.g_vram)
                                     ELSE "none"]
      two == [one EXCEPT !.osd = Append(@, "GPUBackendCreationFailed"),
                         !.requested_renderer = "Software",
                         !.gpu_backend = [kind |-> "Software", initialized |-> sw_ok],
                         !.inits = Append(@, <<"Software", upload_vram, sw_ok>>),
                         !.g_vram = SoftwareInitialize(upload_vram, sw_ok, @)]
      copied == IF has_error_ptr THEN "backend" ELSE "none"
  IN IF okay THEN [one EXCEPT !.result = "true"]
     ELSE IF is_hardware
       THEN [two EXCEPT !.result = BoolStr(sw_ok),
                        !.error = IF sw_ok THEN @ ELSE copied]
       ELSE [one EXCEPT !.result = "false", !.error = copied]

\* expected_api taken from cmd->renderer instead of the requested renderer.
ExpectedAPIOfCommand(cmd, current_api, requested) ==
  IF cmd.renderer = "Software" /\ current_api # "None"
    THEN current_api
    ELSE GetRenderAPIForRenderer(IF cmd.renderer # "nullopt" THEN cmd.renderer
                                                               ELSE SettingsGpuRenderer)

\* const RenderAPI expected_api = ...
ExpectedAPI(cmd, current_api, requested) ==
  IF cmd.renderer = "Software" /\ current_api # "None"
    THEN current_api
    ELSE GetRenderAPIForRenderer(IF requested # "nullopt" THEN requested
                                                            ELSE SettingsGpuRenderer)

\* The device recreation of ReconfigureOnThread with the rollback made with
\* expected_api once more.
DeviceRecreationRetry(cmd, ok1, ok2, v) ==
  LET current_api == v.device
      expected_api == ExpectedAPI(cmd, current_api, v.requested_renderer)
      first == CreateDeviceOnThread(expected_api, ok1, v.requested_fullscreen_ui)
      rollback == CreateDeviceOnThread(expected_api, ok2, v.requested_fullscreen_ui)
      gone == [v EXCEPT !.device = "None", !.fsui = FALSE,
                        !.destroyed = current_api # "None"]
  IN IF ~(cmd.force_recreate_device \/ current_api # expected_api) THEN v
     ELSE IF first[1] # "None"
       THEN [gone EXCEPT !.device = first[1], !.fsui = first[2],
                         !.created = <<<<expected_api, TRUE>>>>]
     ELSE IF current_api = "None"
       THEN [gone EXCEPT !.created = <<<<expected_api, FALSE>>>>,
                         !.osd = Append(@, "DeviceSwitchFailed")]
     ELSE [gone EXCEPT !.device = rollback[1], !.fsui = rollback[2],
                       !.created = <<<<expected_api, FALSE>>, <<expected_api, ok2>>>>,
                       !.osd = Append(@, "DeviceSwitchFailed")]

\* ReconfigureOnThread, "Device recreation?": destroy the device and create
\* one for expected_api; if that fails, one for current_api when there was
\* a device.  ok1 and ok2 are the outcomes of the two CreateDeviceOnThread.
DeviceRecreation(cmd, ok1, ok2, v) ==
  LET current_api == v.device
      expected_api == ExpectedAPI(cmd, current_api, v.requested_renderer)
      first == CreateDeviceOnThread(expected_api, ok1, v.requested_fullscreen_ui)
      rollback == CreateDeviceOnThread(current_api, ok2, v.requested_fullscreen_ui)
      gone == [v EXCEPT !.device = "None", !.fsui = FALSE,
                        !.destroyed = current_api # "None"]
  IN IF ~(cmd.force_recreate_device \/ current_api # expected_api) THEN v
     ELSE IF first[1] # "None"
       THEN [gone EXCEPT !.device = first[1], !.fsui = first[2],
                         !.created = <<<<expected_api, TRUE>>>>]
     ELSE IF current_api = "None"
       THEN [gone EXCEPT !.created = <<<<expected_api, FALSE>>>>,
                         !.osd = Append(@, "DeviceSwitchFailed")]
     ELSE [gone EXCEPT !.device = rollback[1], !.fsui = rollback[2],
                       !.created = <<<<expected_api, FALSE>>, <<current_api, ok2>>>>,
                       !.osd = Append(@, "DeviceSwitchFailed")]

\* ReconfigureOnThread with the read-back but without the
\* DestroyGPUBackendOnThread behind it.
OldBackendTeardownKeepsBackend(cmd, v) ==
  LET readback == v.gpu_backend.kind # "null" /\ cmd.renderer # "nullopt" /\ cmd.upload_vram
  IN [v EXCEPT !.readback = readback,
               !.g_vram = IF readback THEN ReadVRAM(v.gpu_backend, v.g_vram, v.texture)
                                      ELSE @]

\* ReconfigureOnThread with no read-back of the old backend's VRAM.
OldBackendTeardownNoReadback(cmd, v) ==
  [v EXCEPT !.gpu_backend = NoBackend, !.texture = "none"]

\* ReconfigureOnThread, "Readback old VRAM for hardware renderers" and the
\* DestroyGPUBackendOnThread behind it.
OldBackendTeardown(cmd, v) ==
  LET readback == v.gpu_backend.kind # "null" /\ cmd.renderer # "nullopt" /\ cmd.upload_vram
  IN [v EXCEPT !.readback = readback,
               !.g_vram = IF readback THEN ReadVRAM(v.gpu_backend, v.g_vram, v.texture)
                                      ELSE @,
               !.gpu_backend = NoBackend,
               !.texture = "none"]

\* ReconfigureOnThread(cmd) as a whole.  env holds the outcomes of the
\* calls that can fail: ok1 and ok2 for CreateDeviceOnThread, hw_ok and
\* sw_ok for GPUBackend::Initialize, fs_ok for FullscreenUI::Initialize.
ReconfigureOnThread(cmd, env, v) ==
  LET fsui == IF cmd.start_fullscreen_ui = "nullopt" THEN v.requested_fullscreen_ui
                                                     ELSE cmd.start_fullscreen_ui = "true"
      stored == [v EXCEPT !.requested_fullscreen_ui = fsui]
      copied == IF cmd.has_error_ptr THEN "device" ELSE "none"
      a == OldBackendTeardown(cmd, stored)
      b == DeviceRecreation(cmd, env.ok1, env.ok2, a)
      recreate == cmd.force_recreate_device
                    \/ v.device # ExpectedAPI(cmd, v.device, v.requested_renderer)
  IN IF cmd.renderer = "nullopt" /\ ~fsui
       THEN [stored EXCEPT !.gpu_backend = NoBackend, !.texture = "none",
                           !.device = "None", !.fsui = FALSE,
                           !.destroyed = v.device # "None"]
     ELSE IF recreate /\ b.device = "None"
       THEN [b EXCEPT !.result = "false", !.error = copied]
     ELSE IF cmd.renderer # "nullopt"
       THEN BackendCreation(cmd.renderer, cmd.upload_vram, cmd.has_error_ptr,
                            env.hw_ok, env.sw_ok, b)
     ELSE LET d == IF b.device = "None"
                     THEN CreateDeviceOnThread(
                            ExpectedAPI(cmd, v.device, v.requested_renderer), env.ok2, fsui)
                     ELSE <<b.device, b.fsui>>
          IN IF d[1] = "None"
               THEN [b EXCEPT !.result = "false", !.error = copied]
               ELSE [b EXCEPT !.device = d[1], !.fsui = d[2] \/ env.fs_ok,
                              !.result = BoolStr(d[2] \/ env.fs_ok),
                              !.error = IF d[2] \/ env.fs_ok \/ ~cmd.has_error_ptr
                                          THEN "none" ELSE "fsui"]

\* The calls one CreateDeviceOnThread makes to the host for the render
\* window: Host::AcquireRenderWindow, and Host::ReleaseRenderWindow when
\* the creation fails behind it.  acquired tells whether a failing creation
\* got as far as a window.
CreateDeviceWindowCalls(ok, acquired) ==
  IF ok THEN <<"Acquire">>
  ELSE IF acquired THEN <<"Acquire", "Release">> ELSE << >>

\* DestroyDeviceOnThread: Host::ReleaseRenderWindow() when there is a device
\* and it has a main swap chain.
DestroyDeviceWindowCalls(device, has_window) ==
  IF device # "None" /\ has_window THEN <<"Release">> ELSE << >>

\* The host's render-window calls of one ReconfigureOnThread(cmd), in the
\* order made, with whether a window was held when the call began.
RenderWindowCalls(cmd, env, acquired, has_window, v) ==
  LET fsui == IF cmd.start_fullscreen_ui = "nullopt" THEN v.requested_fullscreen_ui
                                                     ELSE cmd.start_fullscreen_ui = "true"
      current_api == v.device
      expected_api == ExpectedAPI(cmd, current_api, v.requested_renderer)
      recreate == cmd.force_recreate_device \/ current_api # expected_api
      destroy == DestroyDeviceWindowCalls(current_api, has_window)
      calls ==
        IF cmd.renderer = "nullopt" /\ ~fsui THEN destroy
        ELSE IF recreate
          THEN destroy \o CreateDeviceWindowCalls(env.ok1, acquired) \o
               (IF env.ok1 THEN << >>
                ELSE <<"Release">> \o
                     (IF current_api = "None" THEN << >>
                      ELSE CreateDeviceWindowCalls(env.ok2, acquired)))
        ELSE IF cmd.renderer = "nullopt" /\ current_api = "None"
          THEN CreateDeviceWindowCalls(env.ok2, acquired)
        ELSE << >>
  IN [held |-> current_api # "None" /\ has_window, calls |-> calls]

\* The fields Reconfigure stores in the command.
ReconfigureCommand(renderer, upload_vram, start_fullscreen_ui, recreate_device, error) ==
  [renderer |-> renderer, upload_vram |-> upload_vram,
   start_fullscreen_ui |-> start_fullscreen_ui,
   force_recreate_device |-> recreate_device, has_error_ptr |-> error]

\* Outcomes of the calls a command can reach; an outcome that no path of
\* the command asks for is left at success.
Outcomes(cmd) ==
  {env \in [ok1 : BOOLEAN, ok2 : BOOLEAN, hw_ok : BOOLEAN, sw_ok : BOOLEAN,
            fs_ok : BOOLEAN] :
     /\ env.ok1 => env.ok2
     /\ (cmd.renderer # "Hardware" \/ ~env.ok2) => env.hw_ok
     /\ (cmd.renderer = "nullopt" \/ ~env.ok2 \/ (cmd.renderer = "Hardware" /\ env.hw_ok))
          => env.sw_ok
     /\ (cmd.renderer # "nullopt" \/ ~env.ok2) => env.fs_ok}

\* GPUThread::Reconfigure from entry point api: PushCommandAndSync, the GPU
\* thread's ReconfigureOnThread, and the return of cmd->result.  requested
\* is s_state.requested_renderer as the entry point left it.
Reconfigure(api, cmd, requested) ==
  \E env \in Outcomes(cmd) :
    LET v == [device |-> g_gpu_device, fsui |-> fsui_initialized,
              gpu_backend |-> gpu_backend, requested_renderer |-> requested,
              requested_fullscreen_ui |-> requested_fullscreen_ui,
              g_vram |-> worker.g_vram, texture |-> worker.texture] @@ NoTrace
    IN \E window \in {RenderWindowCalls(cmd, env, acquired, present.has_swap_chain, v) :
                        acquired \in BOOLEAN} :
       \E out \in {[ReconfigureOnThread(cmd, env, v) EXCEPT !.window = window]} :
       /\ g_gpu_device' = out.device
       /\ fsui_initialized' = out.fsui
       /\ gpu_backend' = out.gpu_backend
       /\ requested_fullscreen_ui' = out.requested_fullscreen_ui
       /\ requested_renderer' = IF api = "DestroyGPUBackend" THEN "nullopt"
                                                             ELSE out.requested_renderer
       /\ cpu' = CpuIdle(cpu.ncmds,
                         CASE api = "CreateGPUBackend" -> out.result = "true"
                           [] api = "DestroyGPUBackend" -> FALSE
                           [] OTHER -> cpu.system_valid)
       /\ worker' = [g_vram |-> out.g_vram, texture |-> out.texture,
                     seq |-> 1 - worker.seq, api |-> api, cmd |-> cmd,
                     old_backend |-> gpu_backend.kind,
                     old_vram |-> BackendVRAM(gpu_backend, worker.g_vram, worker.texture),
                     trace |-> [f \in DOMAIN NoTrace |-> out[f]],
                     display |-> worker.display]
       /\ UNCHANGED <<ringVars, wakeVars, run_idle_flag, gpu, histVars, frames, present>>

\* CreateGPUBackend(renderer, upload_vram, fullscreen, force_recreate_device,
\* error): also the way a running system changes its renderer.
CreateGPUBackendCall ==
  \E renderer \in {"Software", "Hardware"}, upload_vram, force, error \in BOOLEAN :
    Reconfigure("CreateGPUBackend",
                ReconfigureCommand(renderer, upload_vram, "nullopt", force, error), renderer)

\* DestroyGPUBackend()
DestroyGPUBackendCall ==
  /\ cpu.system_valid
  /\ Reconfigure("DestroyGPUBackend",
                 ReconfigureCommand("nullopt", FALSE, "nullopt", FALSE, FALSE),
                 requested_renderer)

\* The lambda of StartFullscreenUI and of StopFullscreenUI, run by the GPU
\* thread while a system is valid.
SetRequestedFullscreenUI ==
  /\ requested_fullscreen_ui' = TRUE
  /\ UNCHANGED <<ringVars, wakeVars, gpu_backend, g_gpu_device, fsui_initialized,
                 run_idle_flag, requested_renderer, cpu, gpu, histVars, auxVars>>

\* StartFullscreenUI(fullscreen, error)
StartFullscreenUICall ==
  IF cpu.system_valid
    THEN SetRequestedFullscreenUI
    ELSE \E error \in BOOLEAN :
           Reconfigure("StartFullscreenUI",
                       ReconfigureCommand("nullopt", FALSE, "true", FALSE, error),
                       requested_renderer)

\* StopFullscreenUI()
StopFullscreenUICall ==
  IF cpu.system_valid
    THEN SetRequestedFullscreenUI
    ELSE Reconfigure("StopFullscreenUI",
                     ReconfigureCommand("nullopt", FALSE, "false", FALSE, FALSE),
                     requested_renderer)

\* The backend handles drawing commands: its VRAM holds another picture.
DrawVRAM ==
  /\ gpu_backend.initialized
  /\ \E p \in Pixels :
       /\ p # BackendVRAM(gpu_backend, worker.g_vram, worker.texture)
       /\ worker' = IF gpu_backend.kind = "Hardware"
                      THEN [worker EXCEPT !.texture = p]
                      ELSE [worker EXCEPT !.g_vram = p]
  /\ UNCHANGED <<mainVars, frames, present>>

ReconfNext ==
  \/ CreateGPUBackendCall \/ DestroyGPUBackendCall
  \/ StartFullscreenUICall \/ StopFullscreenUICall \/ DrawVRAM

ReconfSpec == Init /\ [][ReconfNext]_vars

(***************************************************************************)
(* Software backend display readout (gpu_sw.cpp).  g_vram is the array of  *)
(* VRAM_WIDTH x VRAM_HEIGHT 16-bit words; UpdateDisplay picks the source   *)
(* rectangle from the command and CopyOut converts it into the upload      *)
(* texture.  worker.display records the last readout: the arguments of     *)
(* CopyOut, the path taken, the pixels written and whether a read left the *)
(* array.  The debug readout of the whole array (show_vram) is left out:   *)
(* its 524,288 pixels are beyond what is enumerated here.                  *)
(***************************************************************************)
VRAM_WIDTH == 1024
VRAM_HEIGHT == 512

DisplayFormats == {"RGBA5551", "RGB565", "RGBA8", "BGRA8"}

\* A u32 is the vector of its 32 bits, least significant first (n < 2^31).
U32(n) == [i \in 1..32 |-> IF i <= 31 THEN (n \div 2^(i - 1)) % 2 ELSE 0]
ShiftLeft(v, k) == [i \in 1..32 |-> IF i > k THEN v[i - k] ELSE 0]
ShiftRight(v, k) == [i \in 1..32 |-> IF i + k <= 32 THEN v[i + k] ELSE 0]
BitAnd(a, b) == [i \in 1..32 |-> a[i] * b[i]]
BitOr(a, b) == [i \in 1..32 |-> IF a[i] + b[i] > 0 THEN 1 ELSE 0]
\* The store of a u32 expression into a u16 pixel keeps the low 16 bits.
TruncateU16(v) == [i \in 1..32 |-> IF i <= 16 THEN v[i] ELSE 0]

\* The words of g_vram as drawn for a readout: a pattern in which adjacent
\* words and the two bytes of a word differ.
VRAMContents(seed, x, y) == ((x * 73 + y * 151 + seed) * 181) % 65536

\* g_vram[index].  A read behind the last word of the array is undefined
\* behaviour and yields whatever lies there, the stray word.
LoadVRAM(seed, stray, index) ==
  IF index < VRAM_WIDTH * VRAM_HEIGHT
    THEN VRAMContents(seed, index % VRAM_WIDTH, index \div VRAM_WIDTH)
    ELSE stray

\* reinterpret_cast<const u8*>(g_vram)[index] on a little-endian host.
LoadVRAMByte(seed, stray, index) ==
  LET word == LoadVRAM(seed, stray, index \div 2)
  IN IF index % 2 = 0 THEN word % 256 ELSE word \div 256

\* VRAM16ToOutput<format>(value)
VRAM16ToOutput(format, value) ==
  LET v == U32(value)
      r == ShiftLeft(BitAnd(v, U32(31)), 3)
      g == ShiftLeft(BitAnd(ShiftRight(v, 5), U32(31)), 3)
      b == ShiftLeft(BitAnd(ShiftRight(v, 10), U32(31)), 3)
      a == IF value \div 32768 # 0 THEN U32(255) ELSE U32(0)
  IN CASE format = "RGBA5551" ->
            TruncateU16(BitOr(BitOr(BitAnd(v, U32(992)),
                                    BitAnd(ShiftRight(v, 10), U32(31))),
                              ShiftLeft(BitAnd(v, U32(31)), 10)))
       [] format = "RGB565" ->
            TruncateU16(BitOr(BitOr(BitOr(ShiftLeft(BitAnd(v, U32(992)), 1),
                                          ShiftLeft(BitAnd(v, U32(32)), 1)),
                                    BitAnd(ShiftRight(v, 10), U32(31))),
                              ShiftLeft(BitAnd(v, U32(31)), 11)))
       [] format = "RGBA8" ->
            BitOr(BitOr(BitOr(r, ShiftLeft(g, 8)), ShiftLeft(b, 16)), ShiftLeft(a, 24))
       [] format = "BGRA8" ->
            BitOr(BitOr(BitOr(b, ShiftLeft(g, 8)), ShiftLeft(r, 16)),
                  ShiftLeft(U32(255), 24))

\* CopyOut15Bit after the texture was obtained: the path, the pixels by row
\* and column, and whether a read left g_vram.
CopyOut15Bit(format, src_x, src_y, width, height, line_skip, seed, stray) ==
  IF (src_x + width) <= VRAM_WIDTH /\ (src_y + height) <= VRAM_HEIGHT
    THEN LET src_step == VRAM_WIDTH * 2^line_skip
             index(row, col) == src_y * VRAM_WIDTH + src_x + row * src_step + col
         IN [path |-> "fast",
             out |-> [row \in 0..(height - 1) |->
                        [col \in 0..(width - 1) |->
                           VRAM16ToOutput(format, LoadVRAM(seed, stray, index(row, col)))]],
             outside |-> \E row \in 0..(height - 1), col \in 0..(width - 1) :
                           index(row, col) >= VRAM_WIDTH * VRAM_HEIGHT]
    ELSE LET y_step == 2^line_skip
         IN [path |-> "wrapping",
             out |-> [row \in 0..(height - 1) |->
                        [col \in 0..(width - 1) |->
                           VRAM16ToOutput(format,
                             LoadVRAM(seed, stray,
                                      ((src_y + row * y_step) % VRAM_HEIGHT) * VRAM_WIDTH
                                        + ((src_x + col) % VRAM_WIDTH)))]],
             outside |-> FALSE]

\* The conversion of three source bytes in the non-wrapping path of
\* CopyOut24Bit.
Convert24Bit(format, src0, src1, src2) ==
  CASE format = "RGBA8" ->
         BitOr(BitOr(BitOr(U32(src0), ShiftLeft(U32(src1), 8)), ShiftLeft(U32(src2), 16)),
               ShiftLeft(U32(255), 24))
    [] format = "BGRA8" ->
         BitOr(BitOr(BitOr(U32(src2), ShiftLeft(U32(src1), 8)), ShiftLeft(U32(src0), 16)),
               ShiftLeft(U32(255), 24))
    [] format = "RGB565" ->
         TruncateU16(BitOr(BitOr(ShiftLeft(ShiftRight(U32(src0), 3), 11),
                                 ShiftLeft(ShiftRight(U32(src1), 2), 5)),
                           ShiftRight(U32(src2), 3)))
    [] format = "RGBA5551" ->
         TruncateU16(BitOr(BitOr(ShiftLeft(ShiftRight(U32(src0), 3), 10),
                                 ShiftLeft(ShiftRight(U32(src1), 3), 5)),
                           ShiftRight(U32(src2), 3)))

\* The conversion of the wrapping path of CopyOut24Bit: rgb is built from two
\* adjacent words and shifted by the parity of the column.
Wrapping24Bit(format, s0, s1, col) ==
  LET shift == (col % 2) * 8
      rgb == ShiftRight(BitOr(ShiftLeft(U32(s1), 16), U32(s0)), shift)
  IN CASE format = "RGBA8" -> BitOr(rgb, ShiftLeft(U32(255), 24))
       [] format = "BGRA8" ->
            BitOr(BitOr(BitOr(BitAnd(rgb, U32(65280)),
                              ShiftLeft(BitAnd(rgb, U32(255)), 16)),
                        BitAnd(ShiftRight(rgb, 16), U32(255))),
                  ShiftLeft(U32(255), 24))
       [] format = "RGB565" ->
            TruncateU16(BitOr(BitOr(BitAnd(ShiftRight(rgb, 3), U32(31)),
                                    BitAnd(ShiftLeft(ShiftRight(rgb, 10), 5), U32(2016))),
                              BitAnd(ShiftLeft(ShiftRight(rgb, 19), 11), U32(4063232))))
       [] format = "RGBA5551" ->
            TruncateU16(BitOr(BitOr(BitAnd(ShiftRight(rgb, 3), U32(31)),
                                    BitAnd(ShiftLeft(ShiftRight(rgb, 11), 5), U32(992))),
                              BitAnd(ShiftLeft(ShiftRight(rgb, 19), 10), U32(2031616))))

\* CopyOut24Bit after the texture was obtained.
CopyOut24Bit(format, src_x, src_y, skip_x, width, height, line_skip, seed, stray) ==
  IF (src_x + width) <= VRAM_WIDTH /\ (src_y + height * 2^line_skip) <= VRAM_HEIGHT
    THEN LET src_stride == (VRAM_WIDTH * 2^line_skip) * 2
             index(row, col) ==
               (src_y * VRAM_WIDTH + src_x) * 2 + skip_x * 3 + row * src_stride + col * 3
         IN [path |-> "fast",
             out |-> [row \in 0..(height - 1) |->
                        [col \in 0..(width - 1) |->
                           Convert24Bit(format,
                             LoadVRAMByte(seed, stray, index(row, col)),
                             LoadVRAMByte(seed, stray, index(row, col) + 1),
                             LoadVRAMByte(seed, stray, index(row, col) + 2))]],
             outside |-> \E row \in 0..(height - 1), col \in 0..(width - 1) :
                           (index(row, col) + 2) \div 2 >= VRAM_WIDTH * VRAM_HEIGHT]
    ELSE LET y_step == 2^line_skip
             src_row(row) == ((src_y + row * y_step) % VRAM_HEIGHT) * VRAM_WIDTH
             offset(col) == src_x + (((skip_x + col) * 3) \div 2)
         IN [path |-> "wrapping",
             out |-> [row \in 0..(height - 1) |->
                        [col \in 0..(width - 1) |->
                           Wrapping24Bit(format,
                             LoadVRAM(seed, stray, src_row(row) + (offset(col) % VRAM_WIDTH)),
                             LoadVRAM(seed, stray,
                                      src_row(row) + ((offset(col) + 1) % VRAM_WIDTH)),
                             col)]],
             outside |-> FALSE]

\* CopyOut: the readout of the mode with the format chosen for it; FALSE is
\* returned when GetDisplayTexture has no texture.
CopyOut(format, src_x, src_y, skip_x, width, height, line_skip, is_24bit, has_texture, seed, stray) ==
  LET args == [src_x |-> src_x, src_y |-> src_y, skip_x |-> skip_x, width |-> width,
               height |-> height, line_skip |-> line_skip, is_24bit |-> is_24bit,
               format |-> format, seed |-> seed]
  IN IF ~has_texture
       THEN [NoDisplay EXCEPT !.called = TRUE, !.args = args]
       ELSE LET copy == IF is_24bit
                          THEN CopyOut24Bit(format, src_x, src_y, skip_x, width, height,
                                            line_skip, seed, stray)
                          ELSE CopyOut15Bit(format, src_x, src_y, width, height,
                                            line_skip, seed, stray)
            IN [NoDisplay EXCEPT !.called = TRUE, !.returned = TRUE, !.args = args,
                                 !.path = copy.path, !.out = copy.out,
                                 !.outside = copy.outside]

\* The source rectangles drawn for a readout: at the origin and at the right
\* and lower edges of the array.
DisplayLefts == {0, VRAM_WIDTH - MaxReadWidth, VRAM_WIDTH - 1}
DisplayTops == {0, VRAM_HEIGHT - MaxReadHeight - 1, VRAM_HEIGHT - 2}
VRAMSeeds == {1, 2}
StrayWords == {0, 65535}

\* The GPUBackendUpdateDisplayCommand handed to the backend, with the format
\* chosen for its mode, whether GetDisplayTexture has a texture, the
\* contents of g_vram and the word behind it.
UpdateDisplayCommand(is_24bit, mode, X, skip, top, width, height, format, has_texture, seed, stray) ==
  [display_disabled |-> FALSE, display_24bit |-> is_24bit,
   interlaced_display_enabled |-> mode # "progressive",
   interlaced_display_interleaved |-> mode \in {"field0", "field1"},
   interlaced_display_field |-> IF mode = "field1" THEN 1 ELSE 0,
   X |-> X, display_vram_left |-> X + skip,
   display_vram_top |-> top, display_vram_width |-> width,
   display_vram_height |-> IF mode = "progressive" THEN height ELSE 2 * height,
   format |-> format, has_texture |-> has_texture, seed |-> seed, stray |-> stray]

\* GPU_SW::UpdateDisplay with show_vram off.
UpdateDisplayOf(cmd) ==
  LET is_24bit == cmd.display_24bit
      interlaced == cmd.interlaced_display_enabled
      field == cmd.interlaced_display_field
      vram_offset_x == IF is_24bit THEN cmd.X ELSE cmd.display_vram_left
      vram_offset_y ==
        cmd.display_vram_top
          + (IF interlaced /\ cmd.interlaced_display_interleaved THEN field ELSE 0)
      skip_x == IF is_24bit THEN cmd.display_vram_left - cmd.X ELSE 0
      read_width == cmd.display_vram_width
      read_height == IF interlaced THEN cmd.display_vram_height \div 2
                                   ELSE cmd.display_vram_height
      line_skip == IF interlaced
                     THEN (IF cmd.interlaced_display_interleaved THEN 1 ELSE 0)
                     ELSE 0
  IN IF cmd.display_disabled
       THEN [NoDisplay EXCEPT !.cleared = TRUE, !.cmd = cmd]
       ELSE [CopyOut(cmd.format, vram_offset_x, vram_offset_y, skip_x, read_width,
                     read_height, line_skip, is_24bit, cmd.has_texture, cmd.seed,
                     cmd.stray) EXCEPT !.cmd = cmd]

\* A system started with the software renderer whose next backend command
\* is an UpdateDisplay.
DisplayInit ==
  /\ Started("Software", FALSE, "PreferredAPI",
             [kind |-> "Software", initialized |-> TRUE], "Software")
  /\ frames = NoFrames
  /\ present = NoPresent
  /\ worker = [NoWorker EXCEPT !.display.pending = TRUE]

\* The GPU thread hands the UpdateDisplay command at the head of the queue to
\* the backend.  A disabled display clears the display texture and reads
\* nothing; the fields that a command's mode does not read are fixed.
UpdateDisplay ==
  /\ worker.display.pending
  /\ \/ worker' = [worker EXCEPT
                     !.display = UpdateDisplayOf([NoDisplay.cmd EXCEPT !.display_disabled = TRUE])]
     \/ \E is_24bit, has_texture \in BOOLEAN,
           mode \in {"progressive", "non-interleaved", "field0", "field1"},
           X \in DisplayLefts, top \in DisplayTops, width \in 1..MaxReadWidth,
           height \in 1..MaxReadHeight, format \in DisplayFormats,
           seed \in VRAMSeeds, stray \in StrayWords :
          \E skip \in IF is_24bit THEN 0..MaxSkipX ELSE {0} :
            \E copy \in {UpdateDisplayOf(UpdateDisplayCommand(is_24bit, mode, X, skip, top,
                            width, height, format, has_texture, seed, stray))} :
              worker' = [worker EXCEPT !.display = copy]
  /\ UNCHANGED <<mainVars, frames, present>>

DisplaySpec == DisplayInit /\ [][UpdateDisplay]_vars

(***************************************************************************)
(* The two threads.                                                        *)
(***************************************************************************)
CpuStep ==
  \/ BackendCommand \/ RunOnThread \/ CreateGPUBackend \/ DestroyGPUBackend
  \/ StartFullscreenUI \/ StopFullscreenUI \/ RequestShutdown
  \/ AllocateCommand \/ AllocateWrapStore \/ AllocateSpinLoad \/ AllocateReturn
  \/ Publish \/ PushCommandThreshold \/ WakeGPUThread \/ WakePost
  \/ SyncSpin \/ SyncSetWaiting \/ SyncWait \/ ReconfigureReturn

GpuStep ==
  \/ GpuLoop \/ SleepGPUThread \/ SleepPostDone \/ SleepWait \/ IdlePresent
  \/ GpuBatchEnd \/ GpuCrash \/ DispatchBackend \/ DispatchWraparound
  \/ WraparoundStore \/ DispatchAsyncCall \/ DispatchShutdown
  \/ DispatchReconfigure \/ ReconfigureOnThreadBegin \/ ReconfigureOnThreadEnd

Next == CpuStep \/ GpuStep

Spec == Init /\ [][Next]_vars

TypeOK ==
  /\ command_fifo_write_ptr \in 0..COMMAND_QUEUE_SIZE
  /\ command_fifo_read_ptr \in 0..COMMAND_QUEUE_SIZE
  /\ thread_wake_semaphore \in 0..2
  /\ thread_is_done_semaphore \in 0..2

FairSpec == Spec /\ WF_vars(CpuStep) /\ WF_vars(GpuStep)

\* The two threads with the long ring-full waits of the CPU thread, for a
\* CPU thread that issues only RunOnThread calls.
WakeNext ==
  \/ RunOnThread
  \/ AllocateCommand \/ AllocateWrapStore \/ AllocateSpinLoad \/ AllocateReturn
  \/ AllocateSpinIterations
  \/ Publish \/ WakeGPUThread \/ WakePost
  \/ GpuLoop \/ SleepGPUThread \/ SleepPostDone \/ SleepWait \/ IdlePresent
  \/ GpuBatchEnd \/ DispatchWraparound \/ WraparoundStore \/ DispatchAsyncCall

WakeSpec == Init /\ [][WakeNext]_vars

\* The two threads for a CPU thread that creates and destroys the backend,
\* switches run-idle and asks for the current frame to be presented again.
IdleNext ==
  \/ RunOnThread \/ PresentCurrentFrame \/ CreateGPUBackend \/ DestroyGPUBackend
  \/ AllocateCommand \/ AllocateWrapStore \/ AllocateSpinLoad \/ AllocateReturn
  \/ Publish \/ WakeGPUThread \/ WakePost
  \/ SyncSetWaiting \/ SyncWait \/ ReconfigureReturn
  \/ GpuLoop \/ SleepGPUThread \/ SleepPostDone \/ SleepWait \/ IdlePresent
  \/ GpuBatchEnd \/ DispatchWraparound \/ WraparoundStore
  \/ DispatchAsyncCall \/ AsyncPresent
  \/ DispatchReconfigure \/ ReconfigureOnThreadBegin \/ ReconfigureOnThreadEnd

IdleSpec == Init /\ [][IdleNext]_vars

(***************************************************************************)
(* History operators used by the properties.                               *)
(***************************************************************************)
Ids == 1..Len(slots)

IsCommandId(id) == id \notin Ids \/ slots[id].type # "Wraparound"

\* Commands (no Wraparound padding) in the order the CPU thread published them.
PublishedCommands == SelectSeq([i \in 1..npublished |-> i], IsCommandId)

\* What the GPU thread dispatched, Wraparound padding left out.
DispatchedCommands == SelectSeq(dispatched, IsCommandId)

IsPrefix(a, b) == Len(a) <= Len(b) /\ \A i \in 1..Len(a) : a[i] = b[i]

Times(id) == Cardinality({i \in 1..Len(dispatched) : dispatched[i] = id})

\* Published slots the GPU thread has not dispatched yet.
Pending == {id \in 1..npublished : Times(id) = 0}

\* The occupied bytes of the ring as the two published cursors define them.
Occupied(o) ==
  IF command_fifo_write_ptr >= command_fifo_read_ptr
    THEN command_fifo_read_ptr <= o /\ o < command_fifo_write_ptr
    ELSE o >= command_fifo_read_ptr \/ o < command_fifo_write_ptr

SlotBytes(id) == slots[id].off..(slots[id].off + slots[id].size - 1)

InSync == cpu.push = "PushCommandAndSync" /\ cpu.pc \in {"sync_spin", "sync_cas", "sync_wait"}

(***************************************************************************)
(* Properties.                                                             *)
(***************************************************************************)
\* C1: FIFO dispatch.  The commands the GPU thread has dispatched are, in
\* order and each once, the first commands the CPU thread published.
C1_FIFODispatch == IsPrefix(DispatchedCommands, PublishedCommands)

\* C2: PushCommandAndSync returns only after every published command has
\* been dispatched: at the step that leaves SyncGPUThread the dispatched
\* commands are exactly the published ones and read equals write.
C2_SyncDrains ==
  [][(InSync /\ ~InSync') =>
       (/\ DispatchedCommands' = PublishedCommands'
        /\ command_fifo_read_ptr' = command_fifo_write_ptr')]_vars

\* C3: ring occupancy.  Every published slot that was not dispatched yet
\* lies inside the occupied bytes [read, write) (or [read, CAPACITY) and
\* [0, write) when write < read) and still holds its header, so read = write
\* only when nothing awaits dispatch; the bytes AllocateCommand hands out
\* belong to no such slot.
C3_RingOccupancy ==
  /\ \A id \in Pending :
       /\ \A o \in SlotBytes(id) : Occupied(o)
       /\ command_fifo_data[slots[id].off].id = id
  /\ cpu.pc = "push" =>
       \A id \in Pending : SlotBytes(id) \cap (cpu.cmd..(cpu.cmd + cpu.size - 1)) = {}

\* C4: no tear.  The word the GPU thread is about to read as a header lies
\* inside the published bytes and holds the header of a slot that the CPU
\* thread wrote and published.
C4_NoTear ==
  CanDispatch =>
    /\ Occupied(gpu.read_ptr)
    /\ command_fifo_data[gpu.read_ptr].type # "Garbage"
    /\ command_fifo_data[gpu.read_ptr].id <= npublished

ToBackend(type) == TypeOrd[type] > TypeOrd["Shutdown"]

HandledTimes(id) == Cardinality({i \in 1..Len(handled) : handled[i] = id})

WraparoundIds == {id \in Ids : slots[id].type = "Wraparound"}

\* C5, routing part: a dispatched slot was passed to HandleCommand if and
\* only if its type is greater than Shutdown.
RoutedByType ==
  \A id \in Ids : HandledTimes(id) = IF ToBackend(slots[id].type) THEN Times(id) ELSE 0

\* C5, Wraparound part, safety: no Wraparound slot is consumed twice, and
\* consuming one takes read_ptr from the end of the ring to offset 0.
WraparoundAtMostOnce ==
  /\ \A id \in WraparoundIds : Times(id) <= 1
  /\ (gpu.pc = "wrap_store" /\ dispatched[Len(dispatched)] # 0) =>
       /\ dispatched[Len(dispatched)] \in WraparoundIds
       /\ slots[dispatched[Len(dispatched)]].off + slots[dispatched[Len(dispatched)]].size
            = COMMAND_QUEUE_SIZE
       /\ gpu.read_ptr = 0

\* C5: dispatch routing, and every Wraparound slot consumed exactly once:
\* never twice, and once by the time a sync that follows it has returned.
C5_DispatchRouting ==
  [][/\ RoutedByType'
     /\ WraparoundAtMostOnce'
     /\ (InSync /\ ~InSync') => \A id \in WraparoundIds' : Times(id)' = 1]_vars

\* C6: allocation liveness.  A call of AllocateCommand returns a slot.
C6_AllocationLiveness == (cpu.pc = "alloc") ~> (cpu.pc = "push")

\* C7: sync liveness.  A call of PushCommandAndSync returns.
C7_SyncLiveness ==
  (cpu.pc = "push" /\ cpu.push = "PushCommandAndSync")
    ~> (cpu.pc \in {"idle", "reconf_ret"})

\* C8: when Reconfigure returns, ReconfigureOnThread has run to its end for
\* that command.
C8_ReconfigureComplete == reconf.returned \subseteq reconf.finished

\* C9: full teardown.  A Reconfigure that took the shut-everything-down path
\* leaves neither backend nor device, and returns a result the worker stored,
\* which is true.
C9_FullTeardown ==
  /\ (cpu.pc = "reconf_ret" /\ Len(slots) \in reconf.teardown) =>
       (gpu_backend = NoBackend /\ g_gpu_device = "None")
  /\ (reconf.last_id \in reconf.teardown) =>
       (reconf.last_stored /\ reconf.last_result = "true")

\* The three states the worker may be left in.
ConsistentWorker ==
  \/ g_gpu_device = "None" /\ gpu_backend = NoBackend
  \/ g_gpu_device # "None" /\ gpu_backend = NoBackend
  \/ g_gpu_device # "None" /\ gpu_backend.kind # "null" /\ gpu_backend.initialized

\* C10: reconfigure atomicity.  When a Reconfigure returns, and whenever the
\* worker is about to dispatch a command, the worker is in one of the three
\* consistent states.
C10_ReconfigureAtomicity ==
  (cpu.pc = "reconf_ret" \/ CanDispatch) => ConsistentWorker

\* Frames published and not yet presented.
InFlightFrames == Cardinality({i \in 1..Len(frames.queue) : frames.queue[i]})

\* C11: bounded frames.  The number of frames published and not yet
\* presented never exceeds the configured queued-frame limit.
C11_BoundedFrames == InFlightFrames <= MaxQueuedFrames

\* C12: cursor ownership.  Every step that changes the write cursor, writes
\* a slot or publishes one is a step of the CPU thread alone, and every step
\* that changes the read cursor is a step of the GPU thread alone.
C12_CursorOwnership ==
  [][/\ (command_fifo_write_ptr' # command_fifo_write_ptr) => (cpu' # cpu /\ gpu' = gpu)
     /\ (slots' # slots \/ npublished' # npublished) => (cpu' # cpu /\ gpu' = gpu)
     /\ (command_fifo_read_ptr' # command_fifo_read_ptr) => (gpu' # gpu /\ cpu' = cpu)]_vars

\* C12 witness: both cursors have moved and the GPU thread has run a
\* Reconfigure and an AsyncCall to their ends.
C12_Witness ==
  /\ command_fifo_write_ptr # 0
  /\ command_fifo_read_ptr # 0
  /\ reconf.finished # {}
  /\ \E i \in 1..Len(dispatched) :
       dispatched[i] \in Ids /\ slots[dispatched[i]].type = "AsyncCall"

\* C13: cursor range.  The published read cursor and the published write
\* cursor are both in [0, CAPACITY): neither is ever CAPACITY.
C13_CursorRange ==
  /\ command_fifo_read_ptr \in 0..(COMMAND_QUEUE_SIZE - 1)
  /\ command_fifo_write_ptr \in 0..(COMMAND_QUEUE_SIZE - 1)

\* C14: no slot crosses the capacity boundary.  Every slot the CPU thread
\* wrote, Wraparound slots included, starts with room for a full header and
\* ends at or before CAPACITY, and a Wraparound slot ends at CAPACITY.
C14_NoSlotCrossesCapacity ==
  \A id \in Ids :
    /\ slots[id].off + SizeofBackendCommand <= COMMAND_QUEUE_SIZE
    /\ slots[id].off + slots[id].size <= COMMAND_QUEUE_SIZE
    /\ slots[id].type = "Wraparound" => slots[id].off + slots[id].size = COMMAND_QUEUE_SIZE


\* The first pass of AllocateCommand that finds read <= write.
AllocPass == cpu.pc = "alloc" /\ cpu' # cpu /\ command_fifo_read_ptr <= command_fifo_write_ptr

TailRoom == COMMAND_QUEUE_SIZE - command_fifo_write_ptr

PlacedAtWrite ==
  /\ slots' = slots
  /\ cpu'.pc = "alloc_ret"
  /\ cpu'.write_ptr = command_fifo_write_ptr

WraparoundInserted ==
  /\ slots' = Append(slots, [type |-> "Wraparound", off |-> command_fifo_write_ptr,
                             size |-> TailRoom])
  /\ cpu'.pc = "alloc_wrap_store"

IsShutdownId(id) == id \in Ids /\ slots[id].type = "Shutdown"

LastDispatched == dispatched[Len(dispatched)]

\* C16: the GPU thread dispatches the Shutdown slot of RequestShutdown only
\* after every command published before it, with the ring drained
\* (read == write) and the read cursor published; the consumer loop then
\* ends, it ends for no other slot, and nothing is dispatched afterwards.
C16_ShutdownFinal ==
  /\ \A k \in 1..Len(dispatched) :
        IsShutdownId(dispatched[k]) =>
          /\ k = Len(dispatched)
          /\ gpu.pc = "exited"
          /\ \A id \in 1..(dispatched[k] - 1) :
                \E j \in 1..(k - 1) : dispatched[j] = id
  /\ gpu.pc = "exited" =>
        /\ Len(dispatched) > 0
        /\ IsShutdownId(LastDispatched)
        /\ gpu.read_ptr = command_fifo_write_ptr
        /\ command_fifo_read_ptr = gpu.read_ptr


\* The slots RunOnThread (and Start/StopFullscreenUI through it) writes.
AsyncCallIds == {id \in Ids : slots[id].type = "AsyncCall"}

\* C17: every callable passed to RunOnThread is invoked (and destroyed, in
\* the same dispatch) at most once, only once published, after every slot
\* published before it, and exactly once by the time the GPU thread has
\* dispatched the Shutdown slot of RequestShutdown.
C17_AsyncCallOnce ==
  /\ \A id \in AsyncCallIds : Times(id) <= 1
  /\ \A k \in 1..Len(dispatched) :
        dispatched[k] \in AsyncCallIds =>
          /\ dispatched[k] <= npublished
          /\ \A id \in 1..(dispatched[k] - 1) :
                \E j \in 1..(k - 1) : dispatched[j] = id
  /\ (gpu.pc = "exited" /\ Len(dispatched) > 0 /\ IsShutdownId(LastDispatched)) =>
        \A id \in AsyncCallIds : id < LastDispatched => Times(id) = 1


\* The last PresentFrame call returned DeviceLost with no device loss in the
\* MIN_TIME_BETWEEN_RESETS seconds before it.
LostOutsideWindow ==
  /\ present.last.pres = "DeviceLost"
  /\ present.last.gap = -1 \/ present.last.gap >= MIN_TIME_BETWEEN_RESETS

\* The API of the device made for the renderer requested before the loss.
RequestedAPI ==
  GetRenderAPIForRenderer(IF present.last.requested # "nullopt"
                            THEN present.last.requested ELSE SettingsGpuRenderer)

\* C18 as stated: after a DeviceLost outside the 15 s window there is a new
\* device made with the fullscreen state sampled before the teardown, a
\* backend for the renderer requested before the loss (when there was one),
\* exactly one more OSD warning, and the worker goes on.
C18_DeviceLossRecovery ==
  LostOutsideWindow =>
    /\ g_gpu_device = RequestedAPI
    /\ present.device_fullscreen = present.last.is_fullscreen
    /\ present.last.requested # "nullopt" =>
         gpu_backend = [kind |-> present.last.requested, initialized |-> TRUE]
    /\ present.osd_warnings = present.last.warnings + 1
    /\ present.pc = "idle"

\* Whether the device, and the backend where one is wanted, could be made.
Recreated ==
  /\ present.last.device_ok
  /\ CASE present.last.requested = "nullopt" -> TRUE
       [] present.last.requested = "Hardware" -> present.last.hw_ok \/ present.last.sw_ok
       [] OTHER -> present.last.sw_ok

\* The renderer of the backend made: the requested one, or Software when
\* the hardware backend failed to initialise.
RecreatedRenderer ==
  IF present.last.requested = "Hardware" /\ ~present.last.hw_ok
    THEN "Software" ELSE present.last.requested

\* C18 amended: after a DeviceLost outside the 15 s window, when the device
\* and the backend can be made, there is a new device with the fullscreen
\* state sampled before the teardown, a backend for the requested renderer
\* or, when the hardware backend fails to initialise, the software backend
\* (which becomes the requested renderer), none when none was requested,
\* exactly one more OSD warning, and the worker goes on; when they cannot be
\* made the process aborts with no warning.
C18_RecoveryWhenCreated ==
  LostOutsideWindow =>
    IF Recreated
      THEN /\ g_gpu_device = RequestedAPI
           /\ fsui_initialized = requested_fullscreen_ui
           /\ present.device_fullscreen = present.last.is_fullscreen
           /\ present.host_fullscreen = present.last.is_fullscreen
           /\ requested_renderer = RecreatedRenderer
           /\ gpu_backend = IF present.last.requested = "nullopt"
                              THEN NoBackend
                              ELSE [kind |-> RecreatedRenderer, initialized |-> TRUE]
           /\ present.osd_warnings = present.last.warnings + 1
           /\ present.pc = "idle"
      ELSE /\ present.osd_warnings = present.last.warnings
           /\ present.pc = "panic"

\* A fullscreen hardware renderer was recovered; a loss with a failed
\* hardware backend was recovered with the software renderer.
C18_Witness ==
  /\ LostOutsideWindow
  /\ Recreated
  /\ present.last.is_fullscreen
  /\ present.device_fullscreen
  /\ present.last.requested = "Hardware"
  /\ gpu_backend.kind = "Software"
  /\ present.osd_warnings = 1

\* C19: a DeviceLost less than 15 s after the previous one is fatal, with no
\* recovery attempted (no new reset time, no warning); the first DeviceLost
\* and one at least 15 s after the previous one go through the recovery,
\* which records its time and ends as the re-creation does.
C19_RateLimit ==
  present.last.pres = "DeviceLost" =>
    IF present.last.gap # -1 /\ present.last.gap < MIN_TIME_BETWEEN_RESETS
      THEN /\ present.pc = "panic"
           /\ present.last.loss = "fatal_rate"
           /\ present.s_last_gpu_reset_time = present.last_loss - present.last.gap
           /\ present.osd_warnings = present.last.warnings
      ELSE /\ present.last.loss # "fatal_rate"
           /\ present.s_last_gpu_reset_time = present.last_loss
           /\ present.pc = IF Recreated THEN "idle" ELSE "panic"
           /\ present.osd_warnings = present.last.warnings + (IF Recreated THEN 1 ELSE 0)

\* A second loss exactly 15 s after the first was recovered.
C19_Witness ==
  /\ present.last.pres = "DeviceLost"
  /\ present.last.gap = MIN_TIME_BETWEEN_RESETS
  /\ present.pc = "idle"
  /\ present.osd_warnings = 2

\* C20: with a swap chain, at most MAX_SKIPPED_PRESENT_COUNT consecutive
\* PresentFrame calls skip, the call after that many skips attempts the
\* present, and a present that returns OK leaves skipped_present_count at 0.
C20_SkipCap ==
  /\ present.streak <= MAX_SKIPPED_PRESENT_COUNT
  /\ present.last.capped => ~present.last.skip_present
  /\ present.last.pres = "OK" => present.skipped_present_count = 0

\* The 51st call of a run of skips presented and reset the counter.
C20_Witness ==
  /\ present.last.capped
  /\ present.last.pres = "OK"
  /\ present.skipped_present_count = 0


\* A step of the CPU thread inside PushCommandAndFrame.
CpuFrameStep == frames'.pc # frames.pc \/ frames'.ncalls # frames.ncalls

\* C21: the backend handle changes only in steps of the GPU thread, and the
\* backend's members (the queued-frame count and its semaphore) are touched
\* by no step of the CPU thread.
C21_BackendOwnership ==
  [][/\ gpu_backend' # gpu_backend => gpu' # gpu /\ cpu' = cpu
     /\ (\/ frames'.m_queued_frames # frames.m_queued_frames
         \/ frames'.semaphore # frames.semaphore) => ~CpuFrameStep]_vars


\* The slot written last is the Wraparound slot of the call in progress.
WrappedThisCall == Len(slots) > 0 /\ slots[Len(slots)].type = "Wraparound"

WakeMagnitude == GetThreadWakeCount(thread_wake_count)

\* C23: WakeGPUThread adds exactly 2 to the wake counter and goes on to post
\* the wake semaphore (once) exactly when the value before the add was
\* negative; no step of the CPU thread takes a positive magnitude away, a
\* GPU thread woken off the semaphore finds a positive magnitude, and a
\* sleep attempt that finds one acknowledges it and returns to the loop.
C23_ProducerWake ==
  [][/\ (cpu.pc = "wake" /\ cpu' # cpu) =>
          /\ thread_wake_count' = thread_wake_count + 2
          /\ thread_wake_semaphore' = thread_wake_semaphore
          /\ (cpu'.pc = "wake_post") <=> (thread_wake_count < 0)
          /\ thread_wake_count = THREAD_WAKE_COUNT_SLEEPING => WakeMagnitude' = 1
     /\ (cpu.pc = "wake_post" /\ cpu' # cpu) =>
          /\ thread_wake_semaphore' = thread_wake_semaphore + 1
          /\ cpu'.pc # "wake_post"
     /\ thread_wake_semaphore' # thread_wake_semaphore =>
          cpu.pc = "wake_post" \/ gpu.pc = "sleep_wait"
     /\ (WakeMagnitude > 0 /\ gpu' = gpu) => WakeMagnitude' >= WakeMagnitude
     /\ (gpu.pc = "sleep_wait" /\ gpu' # gpu) =>
          /\ WakeMagnitude' > 0
          /\ gpu'.pc = "sleep"
     /\ (gpu.pc = "sleep" /\ gpu' # gpu /\ WakeMagnitude > 0) =>
          /\ gpu'.pc = "loop"
          /\ WakeMagnitude' = 0]_vars

\* WakeGPUThread met a parked GPU thread: the counter went from -1 to 1 and
\* the post of the wake semaphore is due.
C23_Witness ==
  /\ cpu.pc = "wake_post"
  /\ gpu.pc = "sleep_wait"
  /\ thread_wake_count = 1
  /\ thread_wake_semaphore = 0


\* The compare_exchange of SleepGPUThread that stores THREAD_WAKE_COUNT_SLEEPING.
CommitsToSleep ==
  gpu.pc = "sleep" /\ gpu' # gpu /\ thread_wake_count' = THREAD_WAKE_COUNT_SLEEPING

\* C24: the GPU thread stores the sleeping state only with run_idle_flag
\* false, read == write as it loaded them and a wake magnitude of 0; it
\* reaches the wait on its wake semaphore only through that store, and
\* never while run_idle_flag is set.
C24_SleepOnlyWhenIdle ==
  [][/\ CommitsToSleep =>
          /\ ~run_idle_flag
          /\ gpu.allow_sleep
          /\ gpu.read_ptr = gpu.write_ptr
          /\ WakeMagnitude = 0
     /\ (gpu'.pc = "sleep_wait" /\ gpu.pc # "sleep_wait") =>
          \/ CommitsToSleep
          \/ gpu.pc = "sleep_post" /\ thread_wake_count = THREAD_WAKE_COUNT_SLEEPING
     /\ (gpu.pc = "sleep_wait" \/ gpu'.pc = "sleep_wait") => ~run_idle_flag /\ ~run_idle_flag'
     /\ (gpu.pc = "sleep" /\ gpu' # gpu /\ ~gpu.allow_sleep) =>
          gpu'.pc \in {"loop", "sleep_post", "idle_present"}]_vars

\* The GPU thread is parked after it worked through every published command.
C24_Witness ==
  /\ gpu.pc = "sleep_wait"
  /\ thread_wake_count = THREAD_WAKE_COUNT_SLEEPING
  /\ thread_wake_semaphore = 0
  /\ npublished = 2
  /\ Len(dispatched) = 2


\* Bytes between the cursors, counted around the ring from read to write.
PendingBytes ==
  IF command_fifo_read_ptr <= command_fifo_write_ptr
    THEN command_fifo_write_ptr - command_fifo_read_ptr
    ELSE (COMMAND_QUEUE_SIZE - command_fifo_read_ptr) + command_fifo_write_ptr

\* The fetch_add of a push function, and the threshold test of PushCommand.
PublishStep == cpu.pc = "push" /\ cpu' # cpu
ThresholdStep == cpu.pc = "pending" /\ cpu' # cpu

\* C25: every push advances write by exactly the size of the slot it
\* publishes; PushCommand goes on to WakeGPUThread if and only if the bytes
\* pending after the publish have reached THRESHOLD_TO_WAKE_GPU, and below
\* it returns with the wake counter and both semaphores as they were;
\* PushCommandAndWakeThread always goes on to WakeGPUThread.
C25_PublishAndThresholdWake ==
  [][/\ PublishStep =>
          /\ command_fifo_write_ptr' = command_fifo_write_ptr + slots[Len(slots)].size
          /\ npublished' = npublished + 1
          /\ UNCHANGED wakeVars
          /\ cpu.push = "PushCommand" => cpu'.pc = "pending"
          /\ cpu.push = "PushCommandAndWakeThread" => cpu'.pc = "wake"
     /\ ThresholdStep =>
          /\ cpu.push = "PushCommand"
          /\ UNCHANGED <<ringVars, wakeVars>>
          /\ (cpu'.pc = "wake") <=> (PendingBytes >= THRESHOLD_TO_WAKE_GPU)
          /\ (PendingBytes < THRESHOLD_TO_WAKE_GPU) => cpu'.pc \in {"idle", "done"}
     /\ (cpu.pc = "wake" /\ cpu' # cpu) =>
          thread_wake_count' = thread_wake_count + 2]_vars

\* PushCommand finds exactly the threshold pending and goes on to wake.
C25_Witness ==
  /\ cpu.pc = "wake"
  /\ cpu.push = "PushCommand"
  /\ PendingBytes = THRESHOLD_TO_WAKE_GPU


\* How often the last Reconfigure put a message with this key on the OSD.
Messages(key) ==
  Cardinality({i \in 1..Len(worker.trace.osd) : worker.trace.osd[i] = key})

\* The last Reconfigure asked for the hardware renderer, reached
\* CreateGPUBackendOnThread, and the hardware backend's Initialize failed.
HardwareInitializeFailed ==
  /\ worker.cmd.renderer = "Hardware"
  /\ Len(worker.trace.inits) >= 1
  /\ worker.trace.inits[1][1] = "Hardware"
  /\ ~worker.trace.inits[1][3]

ReconfigureStep == worker'.seq # worker.seq

\* s_state.requested_renderer as ReconfigureOnThread finds it in this step.
RequestedAtCall ==
  IF worker'.api = "CreateGPUBackend" THEN worker'.cmd.renderer ELSE requested_renderer

\* The Reconfigure of this step asks for a renderer or for the fullscreen UI.
WantsDevice ==
  \/ worker'.cmd.renderer # "nullopt"
  \/ worker'.cmd.start_fullscreen_ui = "true"
  \/ worker'.cmd.start_fullscreen_ui = "nullopt" /\ requested_fullscreen_ui

\* C27: a Reconfigure that asks for a renderer or the fullscreen UI destroys
\* the device and creates one if and only if force_recreate_device is set
\* or the required API is not the API of the device; when that creation
\* fails and there was a device, a device for the previous API is created
\* and the reconfigure goes on; with no previous device, or when that
\* creation fails too, the result is false, the error reaches the caller's
\* Error, and neither a device nor a backend is left.
C27_DeviceRollback ==
  [][(ReconfigureStep /\ WantsDevice) =>
       LET cmd == worker'.cmd
           t == worker'.trace
           current == g_gpu_device
           required == ExpectedAPI(cmd, current, RequestedAtCall)
           recreate == cmd.force_recreate_device \/ required # current
           first_failed == recreate /\ ~t.created[1][2]
           gave_up == first_failed /\ (current = "None" \/ ~t.created[2][2])
       IN /\ (t.created # << >>) <=> recreate
          /\ t.destroyed <=> (recreate /\ current # "None")
          /\ ~recreate => g_gpu_device' = current
          /\ recreate => t.created[1][1] = required
          /\ (recreate /\ t.created[1][2]) => Len(t.created) = 1 /\ g_gpu_device' = required
          /\ (first_failed /\ current # "None") =>
               /\ Len(t.created) = 2
               /\ t.created[2][1] = current
          /\ (first_failed /\ current = "None") => Len(t.created) = 1
          /\ (first_failed /\ ~gave_up) =>
               /\ g_gpu_device' = current
               /\ cmd.renderer # "nullopt" => t.inits # << >>
               /\ cmd.renderer = "nullopt" => t.result = BoolStr(fsui_initialized')
          /\ gave_up =>
               /\ t.result = "false"
               /\ cmd.has_error_ptr => t.error = "device"
               /\ g_gpu_device' = "None"
               /\ gpu_backend' = NoBackend
               /\ t.inits = << >>]_vars

\* The device for the hardware API could not be created, the device for the
\* previous API could, and the hardware backend runs on it.
C27_Witness ==
  /\ Len(worker.trace.created) = 2
  /\ worker.trace.created[1] = <<"HardwareAPI", FALSE>>
  /\ worker.trace.created[2] = <<"PreferredAPI", TRUE>>
  /\ worker.trace.destroyed
  /\ g_gpu_device = "PreferredAPI"
  /\ gpu_backend = [kind |-> "Hardware", initialized |-> TRUE]
  /\ worker.trace.result = "true"


\* The Reconfigure of this step names no renderer, the fullscreen UI is
\* requested by the command or by an earlier one, and the result is true.
FullscreenUIOnly ==
  /\ ReconfigureStep
  /\ worker'.cmd.renderer = "nullopt"
  /\ WantsDevice
  /\ worker'.trace.result = "true"

\* The API of the renderer that is requested, or of the settings' renderer.
RequestedRendererAPI ==
  GetRenderAPIForRenderer(IF RequestedAtCall # "nullopt" THEN RequestedAtCall
                                                           ELSE SettingsGpuRenderer)

\* C28 as stated: a successful fullscreen-UI-only Reconfigure ends with a
\* device, no backend and the fullscreen UI initialised, and never tears
\* the device down.
C28_NoTeardown ==
  [][FullscreenUIOnly =>
       /\ g_gpu_device' # "None"
       /\ gpu_backend' = NoBackend
       /\ fsui_initialized'
       /\ ~worker'.trace.destroyed]_vars

\* C28, amended: a successful fullscreen-UI-only Reconfigure ends with a
\* device, no backend and the fullscreen UI initialised; the device is torn
\* down exactly when its API is not the API of the requested renderer, and
\* a device is then created anew.
C28_TeardownOnlyForAPI ==
  [][FullscreenUIOnly =>
       /\ g_gpu_device' # "None"
       /\ gpu_backend' = NoBackend
       /\ fsui_initialized'
       /\ worker'.trace.destroyed <=>
            (g_gpu_device # "None" /\ RequestedRendererAPI # g_gpu_device)
       /\ worker'.trace.destroyed =>
            /\ worker'.trace.created # << >>
            /\ g_gpu_device' \in {RequestedRendererAPI, g_gpu_device}
       /\ (g_gpu_device # "None" /\ ~worker'.trace.destroyed) =>
            /\ g_gpu_device' = g_gpu_device
            /\ worker'.trace.created = << >>]_vars

\* DestroyGPUBackend while the fullscreen UI is requested left the device
\* and the fullscreen UI as they were.
C28_Witness ==
  /\ worker.api = "DestroyGPUBackend"
  /\ worker.trace.result = "true"
  /\ worker.old_backend = "Hardware"
  /\ ~worker.trace.destroyed
  /\ worker.trace.created = << >>
  /\ g_gpu_device = "HardwareAPI"
  /\ gpu_backend = NoBackend
  /\ fsui_initialized


\* The Reconfigure of this step replaces a backend and carries VRAM over.
BackendSwap ==
  /\ ReconfigureStep
  /\ worker'.cmd.renderer # "nullopt"
  /\ worker'.cmd.upload_vram
  /\ gpu_backend.kind # "null"

\* C29: a Reconfigure to a renderer with upload_vram, made while a backend
\* is active, reads the whole VRAM back from the old backend before it is
\* destroyed and initialises every new backend with upload_vram, so that
\* g_vram, and the VRAM of the backend that runs afterwards, hold what the
\* old backend held.
C29_VRAMSurvivesSwap ==
  [][BackendSwap =>
       LET old == BackendVRAM(gpu_backend, worker.g_vram, worker.texture)
           inits == worker'.trace.inits
       IN /\ worker'.trace.readback
          /\ worker'.old_vram = old
          /\ \A i \in 1..Len(inits) : inits[i][2]
          /\ worker'.g_vram = old
          /\ gpu_backend'.initialized =>
               BackendVRAM(gpu_backend', worker'.g_vram, worker'.texture) = old]_vars

\* The picture a hardware backend drew is in g_vram under the software
\* backend that took its place.
C29_Witness ==
  /\ worker.old_backend = "Hardware"
  /\ worker.old_vram = "gradient"
  /\ worker.cmd.renderer = "Software"
  /\ worker.cmd.upload_vram
  /\ worker.trace.readback
  /\ worker.trace.result = "true"
  /\ gpu_backend = [kind |-> "Software", initialized |-> TRUE]
  /\ worker.g_vram = "gradient"


\* Positions in the last PresentFrame's ImGui calls that hold one of `names`.
ImGuiPositions(names) ==
  {i \in 1..Len(present.last.imgui) : present.last.imgui[i] \in names}

\* C30: every PresentFrame call that returns (presented, skipped, refused,
\* device lost and recovered, exclusive fullscreen lost; with or without
\* allow_skip_present, as in the idle cycle) makes exactly one call that
\* ends the ImGui frame, RenderImGui or ImGui::EndFrame(), and after it, as
\* its last ImGui call, exactly one ImGuiManager::NewFrame().
C30_ImGuiFrameKick ==
  (present.last.pres # "none" /\ present.pc # "panic") =>
    /\ Cardinality(ImGuiPositions({"RenderImGui", "EndFrame"})) = 1
    /\ ImGuiPositions({"NewFrame"}) = {Len(present.last.imgui)}
    /\ ImGuiPositions({"RenderImGui", "EndFrame"}) = {Len(present.last.imgui) - 1}
    /\ (present.last.pres = "OK") <=> (ImGuiPositions({"RenderImGui"}) # {})

\* A lost device was recreated and the frame was kicked after it.
C30_Witness ==
  /\ present.last.pres = "DeviceLost"
  /\ present.last.loss = "recovered"
  /\ present.pc = "idle"
  /\ present.last.imgui = <<"Shutdown", "Initialize", "EndFrame", "NewFrame">>


\* C31: a present that returns OK with a scheduled time takes exactly one
\* pacing path: with timed present, EndPresent with the present time and no
\* flush or sleep by the worker; with explicit present and no timed present,
\* EndPresent in explicit mode, the sleep, then SubmitPresent; with neither,
\* FlushCommands, the sleep, then EndPresent.  With no scheduled time there
\* is no flush, sleep or submit.
C31_PacingPathsExclusive ==
  present.last.pres = "OK" =>
    present.last.pacing =
      IF ~present.last.scheduled THEN <<"EndPresent(false, 0)">>
      ELSE IF present.last.timed_present THEN <<"EndPresent(false, present_time)">>
      ELSE IF present.last.explicit_present
        THEN <<"EndPresent(true, 0)", "SleepUntilPresentTime", "SubmitPresent">>
      ELSE <<"FlushCommands", "SleepUntilPresentTime", "EndPresent(false, 0)">>


(***************************************************************************)
(* Display readout of the software backend.                                *)
(***************************************************************************)
\* The 24-bit pixel (row, col) of the naive readout: the three bytes at byte
\* offset 3 * (skip_x + col) from (src_x, (src_y + row * 2^line_skip) mod
\* VRAM_HEIGHT), word indices modulo VRAM_WIDTH, converted as the
\* non-wrapping path converts them.
Naive24Bit(args, row, col) ==
  LET y == (args.src_y + row * 2^args.line_skip) % VRAM_HEIGHT
      byte(k) ==
        LET b == 3 * (args.skip_x + col) + k
            word == VRAMContents(args.seed, (args.src_x + b \div 2) % VRAM_WIDTH, y)
        IN IF b % 2 = 0 THEN word % 256 ELSE word \div 256
  IN Convert24Bit(args.format, byte(0), byte(1), byte(2))

\* C32: whenever CopyOut24Bit takes the wrapping path, every pixel (row, col)
\* it emits equals the pixel of the naive modular readout, for each skip_x,
\* even or odd, and each of the four output formats.
C32_Wrapping24BitEqualsNaive ==
  LET d == worker.display
  IN (d.called /\ d.returned /\ d.args.is_24bit /\ d.path = "wrapping") =>
       \A row \in 0..(d.args.height - 1), col \in 0..(d.args.width - 1) :
         d.out[row][col] = Naive24Bit(d.args, row, col)

\* The 15-bit pixel (row, col) of the modular reference.
Modular15Bit(args, row, col) ==
  VRAM16ToOutput(args.format,
                 VRAMContents(args.seed, (args.src_x + col) % VRAM_WIDTH,
                              (args.src_y + row * 2^args.line_skip) % VRAM_HEIGHT))

\* C33: CopyOut15Bit never reads outside g_vram and emits for every pixel
\* (row, col) the converted word at ((src_x + col) mod VRAM_WIDTH,
\* (src_y + row * 2^line_skip) mod VRAM_HEIGHT), on the fast path and on the
\* wrapping path, for line_skip 0 and 1.
C33_Readout15BitEqualsModular ==
  LET d == worker.display
  IN (d.called /\ d.returned /\ ~d.args.is_24bit) =>
       /\ ~d.outside
       /\ \A row \in 0..(d.args.height - 1), col \in 0..(d.args.width - 1) :
            d.out[row][col] = Modular15Bit(d.args, row, col)


(***************************************************************************)
(* Backend and device.                                                     *)
(***************************************************************************)
\* C34: with a producer that issues backend commands only between a
\* CreateGPUBackend that returned true and the next DestroyGPUBackend,
\* whenever the GPU thread is about to dispatch a backend command (type >
\* Shutdown) an initialised backend is installed.
C34_BackendAtDispatch ==
  (CanDispatch /\ TypeOrd[command_fifo_data[gpu.read_ptr].type] > TypeOrd["Shutdown"]) =>
    (gpu_backend.kind # "null" /\ gpu_backend.initialized)


\* C35: between two command dispatches, an installed backend implies an
\* existing GPU device: the device is never destroyed while a backend remains
\* installed.
C35_BackendImpliesDevice == gpu_backend.kind # "null" => g_gpu_device # "None"

\* A Reconfigure that destroyed the device and ended with a backend installed.
C35_Witness == worker.trace.destroyed /\ gpu_backend.kind # "null" /\ g_gpu_device # "None"


(***************************************************************************)
(* Semaphores and the range of the wake counter.                           *)
(***************************************************************************)
\* The GPU thread has stored the sleeping value and not yet returned from
\* the wait on its wake semaphore.
Asleep == gpu.pc = "sleep_wait" \/ (gpu.pc = "sleep_post" /\ gpu.allow_sleep)

\* Permits of the completion semaphore held or owed: the waiting flag in the
\* counter, a Post the GPU thread is about to make, a permit not yet taken.
DoneOwed ==
  (IF thread_wake_count >= 0 /\ HasWaitingBit(thread_wake_count) THEN 1 ELSE 0)
    + (IF gpu.pc = "sleep_post" THEN 1 ELSE 0) + thread_is_done_semaphore

\* Permits of the wake semaphore held or about to be posted.
WakePermits == thread_wake_semaphore + (IF cpu.pc = "wake_post" THEN 1 ELSE 0)

\* C36: the completion semaphore holds at most one permit; a waiting flag,
\* a pending Post or a permit exists exactly while the CPU thread waits in
\* SyncGPUThread after setting the flag, one of them at a time, and the Post
\* is made with a wake magnitude that is not positive; the wake semaphore
\* holds one permit, or is about to get one, exactly when the GPU thread
\* stored the sleeping value and a wake has since found it.
C36_SemaphoreBalance ==
  /\ thread_is_done_semaphore <= 1
  /\ DoneOwed = (IF cpu.pc = "sync_wait" THEN 1 ELSE 0)
  /\ gpu.pc = "sleep_post" => GetThreadWakeCount(thread_wake_count) <= 0
  /\ WakePermits = (IF Asleep /\ thread_wake_count >= 0 THEN 1 ELSE 0)
  /\ thread_wake_count < 0 => Asleep

\* C37: the wake counter is the sleeping value or a pending-work count below
\* the CPU_WAITING bit, with the bit set only by a CPU thread that waits in
\* SyncGPUThread: it never overflows and its count never reaches the bit.
C37_WakeMagnitudeInRange ==
  /\ thread_wake_count >= THREAD_WAKE_COUNT_SLEEPING
  /\ (thread_wake_count >= 0 /\ HasWaitingBit(thread_wake_count)) => cpu.pc = "sync_wait"


(***************************************************************************)
(* Fullscreen UI request, render window, presents without a device.        *)
(***************************************************************************)
\* C38: once the GPU thread has processed the work of a StopFullscreenUI call
\* requested_fullscreen_ui is false, and after the work of a
\* StartFullscreenUI call it is true, with a valid system (async call) and
\* without one (Reconfigure).
C38_StopClearsRequest ==
  [][/\ StopFullscreenUICall => ~requested_fullscreen_ui'
     /\ StartFullscreenUICall => requested_fullscreen_ui']_vars


\* C39: in every reconfigure Host::ReleaseRenderWindow is called only while
\* a window obtained from Host::AcquireRenderWindow is held, at most once
\* per acquisition, also when a device creation fails and is rolled back.
C39_ReleaseBalance ==
  LET w == worker.trace.window
  IN \A i \in 1..Len(w.calls) :
       w.calls[i] = "Release" =>
         IF i = 1 THEN w.held ELSE w.calls[i - 1] = "Acquire"


\* C40: PresentFrame runs on the GPU thread only while a GPU device exists:
\* neither the run-idle branch of the loop nor the callable of
\* PresentCurrentFrame reaches it with g_gpu_device empty.
C40_PresentNeedsDevice ==
  gpu.pc \in {"idle_present", "present_frame"} => g_gpu_device # "None"

====
